---- MODULE Spec2Model ----
(***************************************************************************)
(* Model of the Readarr add-book workflow of netlify/functions/proxy.js    *)
(* (addBookToReadarr and its helpers).  JavaScript strings are TLA+        *)
(* strings; the empty string stands for every falsy string-valued field    *)
(* (undefined, null, '').                                                  *)
(***************************************************************************)
EXTENDS Integers, Sequences, FiniteSets, TLC

(***************************************************************************)
(* String primitives (JavaScript String.prototype and RegExp pieces).      *)
(***************************************************************************)
Char(s, i) == SubSeq(s, i, i)

UpperLetters == "ABCDEFGHIJKLMNOPQRSTUVWXYZ"
LowerLetters == "abcdefghijklmnopqrstuvwxyz"
DigitChars == {"0", "1", "2", "3", "4", "5", "6", "7", "8", "9"}
LowerSet == {Char(LowerLetters, i) : i \in 1..26}

\* \s of the regular expressions (the inputs use the blank only)
IsSpace(c) == c = " "
\* \w of the regular expressions
IsWordChar(c) ==
    c \in LowerSet \cup {Char(UpperLetters, i) : i \in 1..26} \cup DigitChars \cup {"_"}

LowerChar(c) ==
    IF \E i \in 1..26 : Char(UpperLetters, i) = c
    THEN Char(LowerLetters, CHOOSE i \in 1..26 : Char(UpperLetters, i) = c)
    ELSE c

RECURSIVE toLowerCase(_)
toLowerCase(s) ==
    IF s = "" THEN "" ELSE LowerChar(Char(s, 1)) \o toLowerCase(Tail(s))

\* s.substring(i - 1): the suffix of s that starts at position i
From(s, i) == SubSeq(s, i, Len(s))

\* the prefix t occurs in s at position i
MatchAt(s, i, t) == i + Len(t) - 1 <= Len(s) /\ SubSeq(s, i, i + Len(t) - 1) = t

\* s.includes(t)
includes(s, t) == \E i \in 1..(Len(s) + 1) : MatchAt(s, i, t)

\* the least element of a non-empty set of positions: the leftmost match,
\* Array.prototype.find
First(S) == CHOOSE k \in S : \A j \in S : k <= j

\* the greatest element of a non-empty set of numbers: a greedy quantifier
Last(S) == CHOOSE k \in S : \A j \in S : j <= k

RECURSIVE TrimLeft(_)
TrimLeft(s) ==
    IF s # "" /\ IsSpace(Char(s, 1)) THEN TrimLeft(Tail(s)) ELSE s

RECURSIVE TrimRight(_)
TrimRight(s) ==
    IF s # "" /\ IsSpace(Char(s, Len(s)))
    THEN TrimRight(SubSeq(s, 1, Len(s) - 1))
    ELSE s

\* s.trim()
trim(s) == TrimLeft(TrimRight(s))

\* number of blanks of s starting at position i
RECURSIVE SpaceRun(_, _)
SpaceRun(s, i) ==
    IF i <= Len(s) /\ IsSpace(Char(s, i)) THEN 1 + SpaceRun(s, i + 1) ELSE 0

\* \b at the gap before position i of s
WordBoundary(s, i) ==
    LET before == i > 1 /\ IsWordChar(Char(s, i - 1))
        after == i <= Len(s) /\ IsWordChar(Char(s, i))
    IN before # after

\* s.replace(/\s+/g, r)
RECURSIVE ReplaceSpaceRuns(_, _)
ReplaceSpaceRuns(s, r) ==
    IF s = "" THEN ""
    ELSE IF IsSpace(Char(s, 1))
         THEN r \o ReplaceSpaceRuns(From(s, 1 + SpaceRun(s, 1)), r)
         ELSE Char(s, 1) \o ReplaceSpaceRuns(Tail(s), r)

\* s.replace(/\s{2,}/g, ' ')
RECURSIVE CollapseSpaces(_)
CollapseSpaces(s) ==
    IF s = "" THEN ""
    ELSE IF SpaceRun(s, 1) >= 2
         THEN " " \o CollapseSpaces(From(s, 1 + SpaceRun(s, 1)))
         ELSE Char(s, 1) \o CollapseSpaces(Tail(s))

\* s.split(',')
RECURSIVE Split(_, _)
Split(s, sep) ==
    IF \E i \in 1..Len(s) : Char(s, i) = sep
    THEN LET i == CHOOSE k \in 1..Len(s) :
                    Char(s, k) = sep /\ \A j \in 1..(k - 1) : Char(s, j) # sep
         IN <<SubSeq(s, 1, i - 1)>> \o Split(From(s, i + 1), sep)
    ELSE <<s>>

\* arr.filter(Boolean) for an array of strings
RECURSIVE FilterTruthy(_)
FilterTruthy(q) ==
    IF q = <<>> THEN <<>>
    ELSE IF Head(q) # "" THEN <<Head(q)>> \o FilterTruthy(Tail(q))
         ELSE FilterTruthy(Tail(q))

MapTrim(q) == [i \in 1..Len(q) |-> trim(q[i])]

(***************************************************************************)
(* cleanupAuthorName and the regular expressions it applies, one operator  *)
(* per String.replace call.                                                *)
(***************************************************************************)
\* s.replace(new RegExp(escaped(bookTitle), 'i'), ' '): first occurrence only
TitleHits(s, lt) ==
    {i \in 1..(Len(s) - Len(lt) + 1) : toLowerCase(SubSeq(s, i, i + Len(lt) - 1)) = lt}

\* the first of the matches at hits, each n characters long, becomes a blank
ReplaceFirstHit(s, hits, n) ==
    IF hits = {} THEN s
    ELSE SubSeq(s, 1, First(hits) - 1) \o " " \o From(s, First(hits) + n)

ReplaceTitle(s, bookTitle) ==
    ReplaceFirstHit(s, TitleHits(s, toLowerCase(bookTitle)), Len(bookTitle))

\* /\bby\b/i matches at position i of s
ByWordAt(s, i) ==
    /\ i + 1 <= Len(s)
    /\ toLowerCase(SubSeq(s, i, i + 1)) = "by"
    /\ WordBoundary(s, i)
    /\ WordBoundary(s, i + 2)

\* s.replace(/\bby\b/gi, ' '), scanning from position i
RECURSIVE ReplaceByWord(_, _)
ReplaceByWord(s, i) ==
    IF i > Len(s) THEN ""
    ELSE IF ByWordAt(s, i) THEN " " \o ReplaceByWord(s, i + 2)
         ELSE Char(s, i) \o ReplaceByWord(s, i + 1)

\* s.replace(/#[0-9]+.*/g, ' ')
SeriesMarkerHits(s) ==
    {i \in 1..(Len(s) - 1) : Char(s, i) = "#" /\ Char(s, i + 1) \in DigitChars}

\* .* runs to the end of the string, so the first match takes the rest
ReplaceSeriesMarker(s) == ReplaceFirstHit(s, SeriesMarkerHits(s), Len(s))

\* s.replace(/\([^)]*\)/g, ' '), scanning from position i
RECURSIVE ReplaceParens(_, _)
ReplaceParens(s, i) ==
    IF i > Len(s) THEN ""
    ELSE LET closes == {j \in (i + 1)..Len(s) : Char(s, j) = ")"}
         IN IF Char(s, i) = "(" /\ closes # {}
            THEN " " \o ReplaceParens(s, 1 + First(closes))
            ELSE Char(s, i) \o ReplaceParens(s, i + 1)

\* s.replace(/["']/g, ' ')
RECURSIVE ReplaceQuotes(_)
ReplaceQuotes(s) ==
    IF s = "" THEN ""
    ELSE (IF Char(s, 1) \in {"\"", "'"} THEN " " ELSE Char(s, 1)) \o ReplaceQuotes(Tail(s))

\* the comma flip shared by cleanupAuthorName: "Last, First" -> "First Last"
FlipComma_Kept(s) == s

\* if (/,/.test(s)) { parts = s.split(',').map(trim).filter(Boolean); ... }
FlipComma(s) ==
    IF includes(s, ",")
    THEN LET parts == FilterTruthy(MapTrim(Split(s, ",")))
         IN IF Len(parts) >= 2 THEN trim(parts[2] \o " " \o parts[1]) ELSE s
    ELSE s

cleanupAuthorName(name, bookTitle) ==
    IF name = "" THEN ""
    ELSE LET s1 == IF bookTitle # "" THEN ReplaceTitle(name, bookTitle) ELSE name
             s2 == ReplaceByWord(s1, 1)
             s3 == ReplaceSeriesMarker(s2)
             s4 == ReplaceParens(s3, 1)
             s5 == ReplaceQuotes(s4)
             s6 == trim(CollapseSpaces(s5))
         IN FlipComma(s6)

(***************************************************************************)
(* String.match pieces: the capture group of each pattern, '' when the     *)
(* pattern does not match.                                                 *)
(***************************************************************************)
\* positions where /\bby\s+/i can start
ByStarts(s) ==
    {i \in 1..Len(s) :
        /\ i + 2 <= Len(s)
        /\ toLowerCase(SubSeq(s, i, i + 1)) = "by"
        /\ WordBoundary(s, i)
        /\ IsSpace(Char(s, i + 2))}

\* (w, L): \s+ takes w blanks, the group takes L characters, and the tail of
\* the pattern matches; stops are the characters the group excludes, opens
\* the characters the tail accepts after optional blanks
ByFits(s, i, stops, opens) ==
    {wl \in (1..SpaceRun(s, i + 2)) \X (1..Len(s)) :
        LET p == i + 2 + wl[1]
            q == p + wl[2]
        IN /\ q <= Len(s) + 1
           /\ \A k \in p..(q - 1) : Char(s, k) \notin stops
           /\ \/ q = Len(s) + 1
              \/ /\ q + SpaceRun(s, q) <= Len(s)
                 /\ Char(s, q + SpaceRun(s, q)) \in opens}

\* the group of the leftmost match; the blanks are greedy, the group is lazy
\* or greedy
ByGroup(s, p, lens, lazy) ==
    SubSeq(s, p, p + (IF lazy THEN First(lens) ELSE Last(lens)) - 1)

\* the (greedy) width of \s+ among the fits
ByWidth(fits) == Last({f[1] : f \in fits})

ByCaptureAt(s, i, fits, lazy) ==
    ByGroup(s, i + 2 + ByWidth(fits),
            {f[2] : f \in {g \in fits : g[1] = ByWidth(fits)}}, lazy)

ByCaptureFrom(s, starts, stops, opens, lazy) ==
    IF starts = {} THEN ""
    ELSE ByCaptureAt(s, First(starts), ByFits(s, First(starts), stops, opens), lazy)

ByCapture(s, stops, opens, lazy) ==
    ByCaptureFrom(s, {i \in ByStarts(s) : ByFits(s, i, stops, opens) # {}},
                  stops, opens, lazy)

\* s.match(/\bby\s+([^()]+?)(?:\s*\(|$)/i)[1]
MatchByLazy(s) == ByCapture(s, {"(", ")"}, {"("}, TRUE)

\* s.match(/\bby\s+([^(-]+)(?:\s*[-(]|$)/i)[1]
MatchByGreedy(s) == ByCapture(s, {"(", "-"}, {"(", "-"}, FALSE)

\* s.match(/^(.+?)\s*\#/)[1]
MatchSeries(s) ==
    LET lens == {L \in 1..Len(s) :
                    /\ 1 + L + SpaceRun(s, 1 + L) <= Len(s)
                    /\ Char(s, 1 + L + SpaceRun(s, 1 + L)) = "#"}
    IN IF lens = {} THEN ""
       ELSE SubSeq(s, 1, First(lens))

\* if (v) names.add(v), on an insertion-ordered Set of strings
AddIfTruthy(q, v) ==
    IF v = "" \/ \E i \in 1..Len(q) : q[i] = v THEN q ELSE Append(q, v)

\* arr.filter(n => n && n.length >= k)
RECURSIVE FilterMinLen(_, _)
FilterMinLen(q, k) ==
    IF q = <<>> THEN <<>>
    ELSE IF Len(Head(q)) >= k THEN <<Head(q)>> \o FilterMinLen(Tail(q), k)
         ELSE FilterMinLen(Tail(q), k)

MinCandidateLen == 3

\* const n = cleanupAuthorName(raw, title); if (n) names.add(n)
AddCleaned(names, raw, title) == AddIfTruthy(names, cleanupAuthorName(raw, title))

\* the comma form "last, first" of authorTitle
AddFlipped(names, parts, title) ==
    IF Len(parts) >= 2 THEN AddCleaned(names, parts[2] \o " " \o parts[1], title)
                       ELSE names

NamesFromAuthorTitle(names, authorTitle, title) ==
    IF authorTitle = "" THEN names
    ELSE IF includes(authorTitle, ",")
         THEN AddFlipped(AddCleaned(names, authorTitle, title),
                         MapTrim(Split(authorTitle, ",")), title)
         ELSE AddCleaned(names, authorTitle, title)

\* "... by Author ..." in the title
NamesFromTitle(names, title) ==
    IF title # "" THEN AddCleaned(names, MatchByLazy(title), title) ELSE names

\* "... by Author ..." in the incoming term
NamesFromTerm(names, term, title) ==
    IF \E i \in 1..Len(term) : ByWordAt(term, i)
    THEN AddCleaned(names, MatchByLazy(term), title)
    ELSE names

extractAuthorNameCandidates(book, term) ==
    FilterMinLen(
        NamesFromTerm(
            NamesFromTitle(
                NamesFromAuthorTitle(<<>>, book.authorTitle, book.title),
                book.title),
            term, book.title),
        MinCandidateLen)

\* norm of pickBestAuthorMatch: lower case, /[^a-z0-9]+/g -> ' ', trim
RECURSIVE ReplaceNonAlnumRuns(_)
ReplaceNonAlnumRuns(s) ==
    IF s = "" THEN ""
    ELSE IF Char(s, 1) \in LowerSet \cup DigitChars
         THEN Char(s, 1) \o ReplaceNonAlnumRuns(Tail(s))
         ELSE LET rest == ReplaceNonAlnumRuns(Tail(s))
              IN IF Len(s) >= 2 /\ Char(s, 2) \notin LowerSet \cup DigitChars
                 THEN rest
                 ELSE " " \o rest

norm(v) == trim(ReplaceNonAlnumRuns(toLowerCase(v)))

\* r?.authorName || r?.name || ''
NameOf(r) == IF r.authorName # "" THEN r.authorName ELSE r.name

pickBestAuthorMatch_FirstContainment(results, candidate) ==
    LET cand == norm(candidate)
        named == {i \in 1..Len(results) : norm(NameOf(results[i])) # ""}
        partial == {i \in named :
                      \/ includes(norm(NameOf(results[i])), cand)
                      \/ includes(cand, norm(NameOf(results[i])))}
    IN IF partial # {} THEN results[First(partial)] ELSE results[1]

\* exact match returns at once, else the first containment, else results[0]
pickBestAuthorMatch(results, candidate) ==
    LET cand == norm(candidate)
        named == {i \in 1..Len(results) : norm(NameOf(results[i])) # ""}
        exact == {i \in named : norm(NameOf(results[i])) = cand}
        partial == {i \in named :
                      \/ includes(norm(NameOf(results[i])), cand)
                      \/ includes(cand, norm(NameOf(results[i])))}
    IN IF exact # {} THEN results[First(exact)]
       ELSE IF partial # {} THEN results[First(partial)]
            ELSE results[1]

(***************************************************************************)
(* JavaScript values of the profile identifiers: undefined, a number, a    *)
(* string or NaN, with truthiness and parseInt.                            *)
(***************************************************************************)
Undefined == [t |-> "undefined", n |-> 0, s |-> ""]
Num(k) == [t |-> "number", n |-> k, s |-> ""]
Str(x) == [t |-> "string", n |-> 0, s |-> x]
NaN == [t |-> "NaN", n |-> 0, s |-> ""]

\* !!v
Truthy(v) == (v.t = "number" /\ v.n # 0) \/ (v.t = "string" /\ v.s # "")

\* a || b
OrElse(a, b) == IF Truthy(a) THEN a ELSE b

DigitValue(c) == CHOOSE d \in 0..9 : ToString(d) = c

\* the number of leading decimal digits of s
RECURSIVE DigitRun(_)
DigitRun(s) ==
    IF s # "" /\ Char(s, 1) \in DigitChars THEN 1 + DigitRun(Tail(s)) ELSE 0

RECURSIVE DecimalValue(_)
DecimalValue(s) ==
    IF s = "" THEN 0
    ELSE 10 * DecimalValue(SubSeq(s, 1, Len(s) - 1)) + DigitValue(Char(s, Len(s)))

\* parseInt(v): leading blanks, an optional sign, then the decimal digits
parseInt(v) ==
    IF v.t = "number" THEN Num(v.n)
    ELSE IF v.t = "string"
         THEN LET t0 == TrimLeft(v.s)
                  neg == t0 # "" /\ Char(t0, 1) = "-"
                  t1 == IF t0 # "" /\ Char(t0, 1) \in {"-", "+"} THEN Tail(t0) ELSE t0
                  k == DigitRun(t1)
              IN IF k = 0 THEN NaN
                 ELSE Num((IF neg THEN -1 ELSE 1) * DecimalValue(SubSeq(t1, 1, k)))
         ELSE NaN

\* a boolean request flag with a destructuring default of true, then !!flag
FlagOrTrue(f) == IF f = "undefined" THEN TRUE ELSE f = "true"

(***************************************************************************)
(* Records: authors, editions, books.  '' is an absent field.              *)
(***************************************************************************)
Author(an, n, fid) ==
    [present |-> TRUE, authorName |-> an, name |-> n, foreignAuthorId |-> fid,
     foreignId |-> "", foreign_id |-> ""]

NoAuthor ==
    [present |-> FALSE, authorName |-> "", name |-> "", foreignAuthorId |-> "",
     foreignId |-> "", foreign_id |-> ""]

NoEdition ==
    [title |-> "", titleSlug |-> "", foreignEditionId |-> "", goodreadsEditionId |-> "",
     goodreadsId |-> "", foreignId |-> "", foreign_id |-> "", editionId |-> "", id |-> "",
     monitored |-> FALSE, manualAdd |-> FALSE]

NoBook ==
    [title |-> "", authorTitle |-> "", seriesTitle |-> "", titleSlug |-> "",
     author |-> NoAuthor, foreignBookId |-> "", foreignEditionId |-> "", foreignId |-> "",
     isbn13 |-> "", isbn10 |-> "", isbn |-> "", asin |-> "", goodreadsId |-> "",
     editionId |-> "", editions |-> <<>>]

\* all sequences over S of length at most n
SeqsUpTo(S, n) == UNION {[1..k -> S] : k \in 0..n}

(***************************************************************************)
(* Bounds of the model.                                                    *)
(***************************************************************************)
\* longest result list an upstream lookup returns
MaxResults == 2
\* longest editions list of an incoming book
MaxEditions == 2
\* number of distinct Date.now() readings
MaxTick == 2

(***************************************************************************)
(* What the upstream services can answer.  A lookup answers with ok =      *)
(* FALSE (a non-2xx response or a rejected fetch) or with a list of        *)
(* records of the service's catalogue.                                     *)
(***************************************************************************)
\* author/lookup results of the library manager
AuthorPool ==
    {Author("Frank Herbert", "", "hebert-f"),
     Author("", "Frank Herbert Jr", ""),
     Author("", "", "anon-1")}

\* raw author results of the bibliographic provider
BookInfoPool ==
    {[name |-> "Frank Herbert", id |-> "bi-7"],
     [name |-> "F. Herbert", id |-> ""]}

\* book/lookup results of the library manager
BookPool ==
    {[title |-> "Dune", author |-> Author("Frank Herbert", "", "hebert-f")],
     [title |-> "Dune", author |-> Author("", "Frank Herbert", "")],
     [title |-> "Dune", author |-> NoAuthor]}

\* edition/lookup results of the library manager
EditionPool ==
    {[NoEdition EXCEPT !.title = "Dune", !.foreignEditionId = "edit-1"],
     [NoEdition EXCEPT !.title = "dune", !.id = "77"],
     [NoEdition EXCEPT !.title = "Other"]}

Responses(pool) ==
    {[ok |-> FALSE, results |-> <<>>]}
        \cup {[ok |-> TRUE, results |-> r] : r \in SeqsUpTo(pool, MaxResults)}

\* answers of the add endpoint; json tells whether the body parses as JSON
AddResponses ==
    {[ok |-> TRUE, status |-> "201", statusText |-> "Created", body |-> "book-1", json |-> TRUE],
     [ok |-> TRUE, status |-> "200", statusText |-> "OK", body |-> "<html>", json |-> FALSE],
     [ok |-> FALSE, status |-> "400", statusText |-> "Bad Request",
      body |-> "[{\"errorMessage\":\"exists\"}]", json |-> TRUE],
     [ok |-> FALSE, status |-> "500", statusText |-> "Internal Server Error", body |-> "",
      json |-> FALSE]}

\* Date.now()
Clock == 1000..(1000 + MaxTick - 1)

(***************************************************************************)
(* Requests and upstream configurations the workflow is run on.            *)
(***************************************************************************)
GoodEdition == [NoEdition EXCEPT !.title = "Y", !.foreignEditionId = "123"]

EditionInputs ==
    {[NoEdition EXCEPT !.title = "X"],
     GoodEdition,
     [NoEdition EXCEPT !.title = "Z", !.id = "77"],
     [NoEdition EXCEPT !.goodreadsEditionId = "gr-5"]}

CompleteAuthor == Author("Frank Herbert", "", "hebert-f")

\* authors the completeness test sends through the resolution strategies
IncompleteAuthors ==
    {NoAuthor, Author("", "Frank Herbert", ""), Author("", "Frank Herbert", "hebert-f")}

Terms == {"", "Dune", "Dune by Frank Herbert"}
ProfileIdInputs == {Undefined, Num(0), Num(2), Str("3"), Str("0"), Str("abc")}
ProfileLists == {<<>>, <<[id |-> Num(1)]>>, <<[id |-> Num(5)], [id |-> Num(1)]>>}
RootFolderLists ==
    {<<>>, <<[path |-> "/data", Path |-> "", name |-> ""]>>,
     <<[path |-> "/mnt/a", Path |-> "", name |-> "a"], [path |-> "/mnt/b", Path |-> "", name |-> "b"]>>}

\* the identifier fields of a book, set one at a time
BookIdFields ==
    {"foreignEditionId", "foreignId", "isbn13", "isbn10", "isbn", "asin", "goodreadsId", "editionId"}

WithId(b, f) ==
    [b EXCEPT ![f] = IF f \in {"isbn13", "isbn10", "isbn"} THEN "9780441013593" ELSE "id-" \o f]

BaseBook == [NoBook EXCEPT !.title = "Dune", !.foreignBookId = "12345"]

CompleteBook == [BaseBook EXCEPT !.author = CompleteAuthor, !.editions = <<GoodEdition>>]

BaseData ==
    [term |-> "Dune", hasBook |-> TRUE, book |-> BaseBook,
     qualityProfileId |-> Num(1), metadataProfileId |-> Num(1),
     rootFolderPath |-> "/books", monitored |-> "undefined",
     searchForNewBook |-> "undefined", foreignEditionId |-> ""]

\* an upstream with one well-formed record of each kind
BaseUpstream ==
    [qualityProfiles |-> <<[id |-> Num(1)]>>, metadataProfiles |-> <<[id |-> Num(1)]>>,
     rootFolders |-> <<[path |-> "/data", Path |-> "", name |-> ""]>>,
     authors |-> {Author("Frank Herbert", "", "hebert-f")},
     bookInfoAuthors |-> {[name |-> "Frank Herbert", id |-> "bi-7"]},
     books |-> {[title |-> "Dune", author |-> Author("Frank Herbert", "", "hebert-f")]},
     editions |-> {[NoEdition EXCEPT !.title = "Dune", !.foreignEditionId = "edit-1"]}]

\* an upstream whose author catalogues hold ill-formed records too
AuthorUpstream ==
    [BaseUpstream EXCEPT !.authors = AuthorPool, !.bookInfoAuthors = BookInfoPool,
                         !.books = BookPool]

\* an upstream whose edition catalogue holds ill-formed records too
EditionUpstream == [BaseUpstream EXCEPT !.editions = EditionPool]

Scenarios ==
    \* requests without a book object
    {[data |-> [BaseData EXCEPT !.term = t, !.hasBook = FALSE, !.book = NoBook],
      upstream |-> BaseUpstream] : t \in Terms}
    \* author resolution: search term, title and book identifier vary
    \cup
    {[data |-> [BaseData EXCEPT !.term = t,
                                !.book = [CompleteBook EXCEPT !.title = ti, !.author = NoAuthor,
                                                              !.foreignBookId = fb]],
      upstream |-> AuthorUpstream] :
        t \in Terms, ti \in {"", "Dune", "Dune by Frank Herbert (Saga #3)"},
        fb \in {"", "12345"}}
    \* author resolution: search term, authorTitle and author vary
    \cup
    {[data |-> [BaseData EXCEPT !.term = ta[1],
                                !.book = [CompleteBook EXCEPT !.authorTitle = ta[2], !.author = au]],
      upstream |-> AuthorUpstream] :
        ta \in ({"", "Dune"} \X {"", "Herbert, Frank", "F. Herbert"})
                  \cup {<<"Dune by Frank Herbert", "F. Herbert">>},
        au \in IncompleteAuthors}
    \* author resolution: an authorTitle that holds no name
    \cup
    {[data |-> [BaseData EXCEPT !.book = [CompleteBook EXCEPT !.title = tb[1],
                                                              !.authorTitle = tb[2],
                                                              !.foreignBookId = tb[3],
                                                              !.author = NoAuthor]],
      upstream |-> AuthorUpstream] :
        tb \in {<<"Dune", "Dune", "">>, <<"Dune", "Dune", "12345">>, <<"", "X", "">>}}
    \* author resolution from the series title
    \cup
    {[data |-> [BaseData EXCEPT !.book = [CompleteBook EXCEPT !.title = ti, !.seriesTitle = st,
                                                              !.author = NoAuthor,
                                                              !.foreignBookId = fb]],
      upstream |-> AuthorUpstream] :
        ti \in {"", "Dune"}, st \in {"", "Herbert Saga #1"}, fb \in {"", "12345"}}
    \* profiles and root folder: caller values and upstream lists vary
    \cup
    {[data |-> [BaseData EXCEPT !.book = CompleteBook, !.qualityProfileId = qm[1],
                                !.metadataProfileId = qm[2], !.rootFolderPath = r],
      upstream |-> [BaseUpstream EXCEPT !.qualityProfiles = qs, !.metadataProfiles = ms,
                                        !.rootFolders = rs]] :
        \* both ids alike, or one of them left out
        qm \in {<<q, q>> : q \in ProfileIdInputs}
                  \cup ({Undefined} \X ProfileIdInputs) \cup (ProfileIdInputs \X {Undefined}),
        r \in {"", "/books"},
        qs \in ProfileLists, ms \in ProfileLists, rs \in {BaseUpstream.rootFolders}}
    \* root folder: the caller's path and the upstream list vary
    \cup
    {[data |-> [BaseData EXCEPT !.book = CompleteBook, !.qualityProfileId = q,
                                !.metadataProfileId = q, !.rootFolderPath = r],
      upstream |-> [BaseUpstream EXCEPT !.qualityProfiles = qs, !.metadataProfiles = qs,
                                        !.rootFolders = rs]] :
        q \in {Undefined, Num(2)}, r \in {"", "/books"},
        qs \in {<<>>, <<[id |-> Num(1)]>>}, rs \in RootFolderLists}
    \* edition resolution: the book's editions vary
    \cup
    {[data |-> [BaseData EXCEPT !.book = [b EXCEPT !.title = ti, !.author = CompleteAuthor,
                                                   !.editions = es]],
      upstream |-> BaseUpstream] :
        ti \in {"", "Dune"}, es \in SeqsUpTo(EditionInputs, MaxEditions),
        b \in {NoBook, BaseBook}}
    \* edition resolution: identifiers, title and term vary
    \cup
    {[data |-> [BaseData EXCEPT !.term = tt[1],
                                !.book = [b EXCEPT !.title = tt[2], !.author = CompleteAuthor,
                                                   !.editions = tt[3]]],
      upstream |-> EditionUpstream] :
        \* term, title, editions
        tt \in {<<"Dune", "Dune", <<>>>>, <<"Arrakis", "Dune", <<>>>>, <<"Dune", "", <<>>>>,
                 <<"Dune", "Dune", <<[NoEdition EXCEPT !.title = "X"]>>>>},
        \* books with at most one identifier besides foreignBookId
        b \in {NoBook, BaseBook} \cup {WithId(NoBook, f) : f \in BookIdFields}
                \cup {WithId(BaseBook, f) : f \in {"foreignEditionId", "isbn13"}}}
    \* the caller names the edition
    \cup
    {[data |-> [BaseData EXCEPT !.foreignEditionId = "ed-9",
                                !.book = [b EXCEPT !.title = ti, !.author = CompleteAuthor,
                                                   !.editions = es]],
      upstream |-> EditionUpstream] :
        ti \in {"", "Dune"}, es \in SeqsUpTo(EditionInputs, 1), b \in {NoBook, BaseBook}}
    \* the author's foreign identifier: author, fetched profiles and root folder vary
    \cup
    {[data |-> [BaseData EXCEPT !.qualityProfileId = fetched[1],
                                !.rootFolderPath = fetched[2],
                                !.book = [CompleteBook EXCEPT !.author = au, !.authorTitle = at]],
      upstream |-> AuthorUpstream] :
        fetched \in {<<Undefined, "">>, <<Num(1), "/books">>},
        au \in IncompleteAuthors \cup {CompleteAuthor, Author("Frank Herbert", "", "")},
        at \in {"", "Herbert, Frank"}}
    \* a book without author and without editions
    \cup
    {[data |-> [BaseData EXCEPT !.book = [BaseBook EXCEPT !.foreignBookId = fb,
                                                          !.authorTitle = at]],
      upstream |-> EditionUpstream] :
        fb \in {"", "12345"}, at \in {"", "Herbert, Frank"}}
    \* the end-to-end scenario: one well-formed record in every catalogue
    \cup
    {[data |-> BaseData, upstream |-> BaseUpstream]}
    \* payload flags
    \cup
    {[data |-> [BaseData EXCEPT !.monitored = mo, !.searchForNewBook = sn,
                                !.book = [CompleteBook EXCEPT !.foreignBookId = fb]],
      upstream |-> BaseUpstream] :
        mo \in {"undefined", "true", "false"}, sn \in {"undefined", "true", "false"},
        fb \in {"", "12345"}}

(***************************************************************************)
(* State of one invocation of addBookToReadarr.                            *)
(***************************************************************************)
VARIABLES
    data,                   \* the request (the data argument)
    upstream,               \* what the upstream services hold
    authorResults,          \* the list pickBestAuthorMatch is given, when run on its own
    pc,                     \* the statement the invocation is at
    book,                   \* incomingBook, mutated in place
    searchTerm,
    authorData,             \* lookup[0] of the initial author lookup
    authorCandidates,
    idx,                    \* position of the running for-of loop
    usedStrategy,
    qpId, mpId,
    rootFolderPath,
    inFlight,               \* the profile fetches sent and not yet answered
    foreignAuthorId,
    candidateNames,
    editionTerms, extraTerms,
    foundEdition,
    arr,
    hasForeignEditionIdentifier,
    addPayload,
    addResponse,            \* what the add endpoint answered
    calls,                  \* the outbound HTTP requests issued so far, in order
    result,                 \* what the invocation returned or threw
    event,                  \* the HTTP request exports.handler is invoked with
    env,                    \* process.env: which settings of each service are present
    media,                  \* locals of the Radarr and Sonarr add workflows
    response                \* what exports.handler returned

vars ==
    <<data, upstream, authorResults, pc, book, searchTerm, authorData, authorCandidates, idx,
      usedStrategy, qpId, mpId, rootFolderPath, inFlight, foreignAuthorId, candidateNames,
      editionTerms, extraTerms, foundEdition, arr, hasForeignEditionIdentifier,
      addPayload, addResponse, calls, result, event, env, media, response>>

\* state of exports.handler, which the statements of addBookToReadarr never touch
handlerVars == <<event, env, media, response>>
inputVars == <<data, upstream, authorResults, handlerVars>>
authorVars == <<searchTerm, authorData, authorCandidates, usedStrategy>>
profileVars == <<qpId, mpId, rootFolderPath, inFlight>>
authorIdVars == <<foreignAuthorId, candidateNames>>
editionVars == <<editionTerms, extraTerms, foundEdition, arr, hasForeignEditionIdentifier>>

NoPayload ==
    [built |-> FALSE, monitored |-> FALSE, addOptions |-> [searchForNewBook |-> FALSE],
     author |-> [monitored |-> FALSE, qualityProfileId |-> NaN, metadataProfileId |-> NaN,
                 foreignAuthorId |-> "", rootFolderPath |-> ""],
     editions |-> <<>>, hasForeignBookId |-> FALSE, foreignBookId |-> ""]

NoAddResponse == [ok |-> FALSE, status |-> "", statusText |-> "", body |-> "", json |-> FALSE]

NoResult == [status |-> "pending", reason |-> "", book |-> "", message |-> ""]

\* a movie or a series as the upstream reports it; id is its library id
NoItem == [present |-> FALSE, foreignId |-> Undefined, title |-> "", id |-> Undefined]

NoEvent ==
    [httpMethod |-> "", body |-> [kind |-> "none"]]

NoEnv == [s \in {"radarr", "sonarr", "readarr", "overseerr"} |-> [url |-> FALSE, key |-> FALSE]]

\* details: the lookup result; answer: the add endpoint's answer; added: the
\* entry taken from it
NoMedia ==
    [details |-> NoItem, answer |-> [ok |-> FALSE, isArray |-> FALSE, items |-> <<>>],
     added |-> NoItem]

NoResponse ==
    [statusCode |-> 0, headers |-> {},
     body |-> [empty |-> TRUE, success |-> "absent", error |-> "", hasData |-> FALSE]]

\* the workflow is called directly, not through exports.handler
Direct ==
    /\ event = NoEvent
    /\ env = NoEnv
    /\ media = NoMedia
    /\ response = NoResponse

\* nothing has been computed yet
Fresh ==
    /\ searchTerm = ""
    /\ authorData = NoAuthor
    /\ authorCandidates = <<>>
    /\ idx = 0
    /\ usedStrategy = ""
    /\ qpId = Undefined
    /\ mpId = Undefined
    /\ rootFolderPath = ""
    /\ inFlight = {}
    /\ foreignAuthorId = ""
    /\ candidateNames = <<>>
    /\ editionTerms = <<>>
    /\ extraTerms = <<>>
    /\ foundEdition = FALSE
    /\ arr = <<>>
    /\ hasForeignEditionIdentifier = FALSE
    /\ addPayload = NoPayload
    /\ addResponse = NoAddResponse
    /\ calls = <<>>
    /\ result = NoResult

Init ==
    /\ \E sc \in Scenarios :
        /\ data = sc.data
        /\ upstream = sc.upstream
        /\ book = sc.data.book
    /\ authorResults = <<>>
    /\ pc = "start"
    /\ Fresh
    /\ Direct

\* one outbound HTTP request
Call(api, term, stage, outcome) ==
    [api |-> api, term |-> term, stage |-> stage, outcome |-> outcome]

\* outcome of the initial author lookup, where a non-2xx answer and an empty
\* list are handled differently
Outcome(resp) ==
    IF ~resp.ok THEN "error" ELSE IF resp.results = <<>> THEN "empty" ELSE "results"

\* outcome of a lookup inside a loop or a try block, where a non-2xx answer,
\* a rejected fetch and an empty list all mean "go on"
LoopOutcome(resp) == IF resp.ok /\ resp.results # <<>> THEN "results" ELSE "none"

NextIndex_Same(i) == i

\* for (const x of list): the iterator moves to the next entry
NextIndex(i) == i + 1

\* throw new Error(reason), propagated to the caller of addBookToReadarr
Throw(reason) ==
    /\ result' = [status |-> "failed", reason |-> reason, book |-> "", message |-> ""]
    /\ pc' = "done"

(***************************************************************************)
(* Step 1: search term and the initial author lookup.                      *)
(***************************************************************************)
\* term, else authorTitle || author.name || author.authorName || title
SearchTermOf(d) ==
    IF d.term # "" THEN d.term
    ELSE IF ~d.hasBook THEN ""
    ELSE IF d.book.authorTitle # "" THEN d.book.authorTitle
    ELSE IF d.book.author.present /\ d.book.author.name # "" THEN d.book.author.name
    ELSE IF d.book.author.present /\ d.book.author.authorName # "" THEN d.book.author.authorName
    ELSE d.book.title

\* lookupBookInfoProAuthor: the mapped results, or threw
lookupBookInfoProAuthor(resp) ==
    IF ~resp.ok \/ resp.results = <<>>
    THEN [threw |-> TRUE, value |-> <<>>]
    ELSE [threw |-> FALSE,
          value |-> [i \in 1..Len(resp.results) |->
                        Author(resp.results[i].name, "", resp.results[i].id)]]

TermMissing_Never(term) == FALSE

\* lookupReadarrAuthor: if (!term) throw
TermMissing(term) == term = ""

LookupAuthor ==
    /\ pc = "start"
    /\ searchTerm' = SearchTermOf(data)
    /\ IF TermMissing(searchTerm')
       THEN /\ Throw("lookup_author requires \"term\"")
            /\ UNCHANGED <<authorData, calls>>
       ELSE \E resp \in Responses(upstream.authors) :
            /\ calls' = Append(calls, Call("author/lookup", searchTerm',
                                           "LookupAuthorCandidate", Outcome(resp)))
            /\ IF ~resp.ok
               THEN /\ Throw("Failed to lookup author")
                    /\ UNCHANGED authorData
               ELSE IF resp.results = <<>>
                    THEN /\ pc' = "lookupFallback"
                         /\ UNCHANGED <<authorData, result>>
                    ELSE /\ authorData' = resp.results[1]
                         /\ pc' = "resolveAuthor"
                         /\ UNCHANGED result
    /\ UNCHANGED <<inputVars, book, authorCandidates, idx, usedStrategy, profileVars,
                   authorIdVars, editionVars, addPayload, addResponse>>

LookupAuthorFallback ==
    /\ pc = "lookupFallback"
    /\ \E resp \in Responses(upstream.bookInfoAuthors) :
        LET lookup == lookupBookInfoProAuthor(resp)
        IN /\ calls' = Append(calls, Call("bookinfo/author", searchTerm,
                                          "LookupAuthorCandidate", LoopOutcome(resp)))
           /\ IF lookup.threw \/ lookup.value = <<>>
              THEN /\ Throw("Author lookup failed for term: " \o searchTerm)
                   /\ UNCHANGED authorData
              ELSE /\ authorData' = lookup.value[1]
                   /\ pc' = "resolveAuthor"
                   /\ UNCHANGED result
    /\ UNCHANGED <<inputVars, book, searchTerm, authorCandidates, idx, usedStrategy,
                   profileVars, authorIdVars, editionVars, addPayload, addResponse>>

(***************************************************************************)
(* Author resolution: candidates, the two lookup loops, the book metadata  *)
(* lookup, and the synthesized authors.                                    *)
(***************************************************************************)
AfterCandidateLoops_Restart(b) == "start"

\* where the resolution continues once the candidate loops are over
AfterCandidateLoops(b) ==
    IF b.foreignBookId # "" THEN "bookMetadata" ELSE "synthesizeAuthor"

AuthorMissing_OrNoId(b) ==
    ~b.author.present \/ b.author.authorName = "" \/ b.author.foreignAuthorId = ""

\* !book.author || !book.author.authorName
AuthorMissing(b) == ~b.author.present \/ b.author.authorName = ""

BookUndefined_Never(d) == FALSE

\* const book = incomingBook; reading book.author of an absent book throws
BookUndefined(d) == ~d.hasBook

BeginAuthorResolution ==
    /\ pc = "resolveAuthor"
    /\ IF BookUndefined(data)
       THEN /\ Throw("Cannot read properties of undefined (reading 'author')")
            /\ UNCHANGED <<authorCandidates, idx>>
       ELSE IF ~AuthorMissing(book)
            THEN /\ pc' = "profiles"
                 /\ UNCHANGED <<authorCandidates, idx, result>>
            ELSE /\ authorCandidates' = extractAuthorNameCandidates(book, searchTerm)
                 /\ idx' = 1
                 /\ pc' = IF authorCandidates' # <<>> THEN "primaryLoop"
                                                      ELSE AfterCandidateLoops(book)
                 /\ UNCHANGED result
    /\ UNCHANGED <<inputVars, book, searchTerm, authorData, usedStrategy, profileVars,
                   authorIdVars, editionVars, addPayload, addResponse, calls>>

PrimaryCandidateLookup ==
    /\ pc = "primaryLoop"
    /\ \E resp \in Responses(upstream.authors) :
        LET cand == authorCandidates[idx]
            best == pickBestAuthorMatch(resp.results, cand)
        IN /\ calls' = Append(calls, Call("author/lookup", cand, "ResolveAuthor", LoopOutcome(resp)))
           /\ IF resp.ok /\ resp.results # <<>> /\ NameOf(best) # ""
              THEN /\ book' = [book EXCEPT !.author = best]
                   /\ usedStrategy' = "Readarr author lookup"
                   /\ pc' = "profiles"
                   /\ UNCHANGED idx
              ELSE /\ IF idx < Len(authorCandidates)
                      THEN idx' = NextIndex(idx) /\ pc' = "primaryLoop"
                      ELSE idx' = 1 /\ pc' = "secondaryLoop"
                   /\ UNCHANGED <<book, usedStrategy>>
    /\ UNCHANGED <<inputVars, searchTerm, authorData, authorCandidates, profileVars,
                   authorIdVars, editionVars, addPayload, addResponse, result>>

SecondaryCandidateLookup ==
    /\ pc = "secondaryLoop"
    /\ \E resp \in Responses(upstream.bookInfoAuthors) :
        LET cand == authorCandidates[idx]
            bookInfoAuthors == lookupBookInfoProAuthor(resp)
        IN /\ calls' = Append(calls, Call("bookinfo/author", cand, "ResolveAuthor", LoopOutcome(resp)))
           /\ IF bookInfoAuthors.threw
              THEN \* the catch is outside the for loop: the loop is abandoned
                   /\ pc' = AfterCandidateLoops(book)
                   /\ UNCHANGED <<book, usedStrategy, idx>>
              ELSE IF bookInfoAuthors.value # <<>>
                   THEN /\ book' = [book EXCEPT !.author = bookInfoAuthors.value[1]]
                        /\ usedStrategy' = "BookInfo.pro"
                        /\ pc' = "profiles"
                        /\ UNCHANGED idx
                   ELSE /\ IF idx < Len(authorCandidates)
                           THEN idx' = NextIndex(idx) /\ pc' = "secondaryLoop"
                           ELSE idx' = idx /\ pc' = AfterCandidateLoops(book)
                        /\ UNCHANGED <<book, usedStrategy>>
    /\ UNCHANGED <<inputVars, searchTerm, authorData, authorCandidates, profileVars,
                   authorIdVars, editionVars, addPayload, addResponse, result>>

BookMetadataLookup ==
    /\ pc = "bookMetadata"
    /\ \E resp \in Responses(upstream.books) :
        /\ calls' = Append(calls, Call("book/lookup", "goodreads:" \o book.foreignBookId,
                                       "ResolveAuthor", LoopOutcome(resp)))
        /\ IF resp.ok /\ resp.results # <<>> /\ resp.results[1].author.present
           THEN /\ book' = [book EXCEPT !.author = resp.results[1].author]
                /\ usedStrategy' = "Book metadata lookup"
                /\ pc' = "profiles"
           ELSE /\ pc' = "synthesizeAuthor"
                /\ UNCHANGED <<book, usedStrategy>>
    /\ UNCHANGED <<inputVars, searchTerm, authorData, authorCandidates, idx, profileVars,
                   authorIdVars, editionVars, addPayload, addResponse, result>>

\* s.toLowerCase().replace(/\s+/g, '-')
Slug(s) == ReplaceSpaceRuns(toLowerCase(s), "-")

MinExtractedLen == 2

\* Layer 5: the name parsed from title, authorTitle or seriesTitle ('' if none)
\* if (!extractedAuthor && authorTitle) ...
OrFromAuthorTitle(extractedAuthor, b) ==
    IF extractedAuthor = "" /\ b.authorTitle # ""
    THEN cleanupAuthorName(b.authorTitle, b.title)
    ELSE extractedAuthor

\* if (!extractedAuthor && book.seriesTitle) ...
OrFromSeriesTitle(extractedAuthor, b) ==
    IF extractedAuthor = "" /\ b.seriesTitle # "" /\ MatchSeries(b.seriesTitle) # ""
    THEN cleanupAuthorName(MatchSeries(b.seriesTitle), b.title)
    ELSE extractedAuthor

ExtractedAuthor(b) ==
    OrFromSeriesTitle(OrFromAuthorTitle(trim(MatchByGreedy(b.title)), b), b)

SyntheticAuthorFrom_TitleOnly(b, extractedAuthor) ==
    LET fallbackName == IF b.authorTitle # "" THEN b.authorTitle ELSE "Unknown Author"
    IN IF Len(extractedAuthor) >= MinExtractedLen
       THEN [strategy |-> "Enhanced name parsing",
             author |-> Author(extractedAuthor, "", Slug(extractedAuthor))]
       ELSE IF b.title # ""
            THEN [strategy |-> "Generic fallback",
                  author |-> Author(fallbackName, "", Slug(fallbackName))]
            ELSE [strategy |-> "", author |-> NoAuthor]

\* Layer 5 and the final fallback: the synthesized author, or none
SyntheticAuthorFrom(b, extractedAuthor) ==
    LET fallbackName == IF b.authorTitle # "" THEN b.authorTitle ELSE "Unknown Author"
    IN IF Len(extractedAuthor) >= MinExtractedLen
       THEN [strategy |-> "Enhanced name parsing",
             author |-> Author(extractedAuthor, "", Slug(extractedAuthor))]
       ELSE IF b.title # "" \/ b.foreignBookId # ""
            THEN [strategy |-> "Generic fallback",
                  author |-> Author(fallbackName, "",
                                    IF Slug(fallbackName) # "" THEN Slug(fallbackName)
                                                                ELSE "unknown")]
            ELSE [strategy |-> "", author |-> NoAuthor]

SyntheticAuthor(b) == SyntheticAuthorFrom(b, ExtractedAuthor(b))

SynthesizeAuthor ==
    /\ pc = "synthesizeAuthor"
    /\ \E resolved \in {SyntheticAuthor(book)} :
          IF resolved.author.present
          THEN /\ book' = [book EXCEPT !.author = resolved.author]
               /\ usedStrategy' = resolved.strategy
               /\ pc' = "profiles"
               /\ UNCHANGED result
          ELSE /\ Throw("Unable to resolve author for book addition. All resolution strategies failed.")
               /\ UNCHANGED <<book, usedStrategy>>
    /\ UNCHANGED <<inputVars, searchTerm, authorData, authorCandidates, idx, profileVars,
                   authorIdVars, editionVars, addPayload, addResponse, calls>>

(***************************************************************************)
(* Profiles, root folder and the author's foreign identifier.              *)
(***************************************************************************)
getReadarrDefaultProfileIds_NoCheck(qps, mps) ==
    [threw |-> FALSE, reason |-> "",
     qualityProfileId |-> IF qps = <<>> THEN Undefined ELSE qps[1].id,
     metadataProfileId |-> IF mps = <<>> THEN Undefined ELSE mps[1].id]

\* getReadarrDefaultProfileIds on the two fetched lists
getReadarrDefaultProfileIds(qps, mps) ==
    IF qps = <<>>
    THEN [threw |-> TRUE, reason |-> "No Readarr quality profiles available",
          qualityProfileId |-> Undefined, metadataProfileId |-> Undefined]
    ELSE IF mps = <<>>
         THEN [threw |-> TRUE, reason |-> "No Readarr metadata profiles available",
               qualityProfileId |-> Undefined, metadataProfileId |-> Undefined]
         ELSE [threw |-> FALSE, reason |-> "",
               qualityProfileId |-> qps[1].id, metadataProfileId |-> mps[1].id]

\* !qpId || !mpId: the defaults have to be fetched
NeedsDefaultProfiles(d) == ~Truthy(d.qualityProfileId) \/ ~Truthy(d.metadataProfileId)

\* the two list fetches handed to Promise.all, each with the answer on its way
ProfileFetches(okQ, okM) ==
    {[api |-> "qualityprofile", ok |-> okQ], [api |-> "metadataprofile", ok |-> okM]}

\* the Error of a list fetch that got a non-2xx answer
FetchFailedReason(api) ==
    IF api = "qualityprofile" THEN "Failed to get quality profiles"
                              ELSE "Failed to get metadata profiles"

ResolveProfiles ==
    /\ pc = "profiles"
    /\ IF ~NeedsDefaultProfiles(data)
       THEN /\ qpId' = data.qualityProfileId
            /\ mpId' = data.metadataProfileId
            /\ pc' = "rootFolder"
            /\ UNCHANGED <<calls, inFlight>>
       ELSE \E okQ \in BOOLEAN, okM \in BOOLEAN :
            LET out(ok, list) == IF ~ok THEN "error" ELSE IF list = <<>> THEN "empty" ELSE "results"
            IN /\ calls' = calls \o
                    <<Call("qualityprofile", "", "ResolveProfiles", out(okQ, upstream.qualityProfiles)),
                      Call("metadataprofile", "", "ResolveProfiles", out(okM, upstream.metadataProfiles))>>
               /\ inFlight' = ProfileFetches(okQ, okM)
               /\ pc' = "profilesWait"
               /\ UNCHANGED <<qpId, mpId>>
    /\ UNCHANGED <<inputVars, book, authorVars, idx, rootFolderPath, authorIdVars,
                   editionVars, addPayload, addResponse, result>>

AwaitedAll_Any(remaining) == TRUE

\* Promise.all fulfils when every fetch has fulfilled
AwaitedAll(remaining) == remaining = {}

\* one of the two fetches is answered; Promise.all rejects with the first
\* rejection, whatever is still in flight
AwaitProfiles ==
    /\ pc = "profilesWait"
    /\ \E fetch \in inFlight :
        /\ inFlight' = inFlight \ {fetch}
        /\ IF ~fetch.ok
           THEN /\ Throw(FetchFailedReason(fetch.api))
                /\ UNCHANGED <<qpId, mpId>>
           ELSE IF ~AwaitedAll(inFlight')
                THEN /\ pc' = "profilesWait"
                     /\ UNCHANGED <<qpId, mpId, result>>
                ELSE LET defaults == getReadarrDefaultProfileIds(upstream.qualityProfiles,
                                                                  upstream.metadataProfiles)
                     IN IF defaults.threw
                        THEN /\ Throw(defaults.reason)
                             /\ UNCHANGED <<qpId, mpId>>
                        ELSE /\ qpId' = OrElse(data.qualityProfileId, defaults.qualityProfileId)
                             /\ mpId' = OrElse(data.metadataProfileId, defaults.metadataProfileId)
                             /\ pc' = "rootFolder"
                             /\ UNCHANGED result
    /\ UNCHANGED <<inputVars, book, authorVars, idx, rootFolderPath, authorIdVars,
                   editionVars, addPayload, addResponse, calls>>

FirstRootPath_Last(roots) ==
    IF roots = <<>> THEN "" ELSE roots[Len(roots)].path

\* roots[0].path || roots[0].Path || roots[0].name, undefined for an empty list
FirstRootPath(roots) ==
    IF roots = <<>> THEN ""
    ELSE IF roots[1].path # "" THEN roots[1].path
    ELSE IF roots[1].Path # "" THEN roots[1].Path
    ELSE roots[1].name

NoRootFolder == "No root folder path provided and no defaults available from Readarr"

RootFolderMissing_Never(path) == FALSE

\* if (!rootFolderPath) throw
RootFolderMissing(path) == path = ""

ResolveRootFolder ==
    /\ pc = "rootFolder"
    /\ IF ~book.author.present
       THEN /\ Throw("Lookup did not return author information required by Readarr")
            /\ UNCHANGED <<rootFolderPath, calls>>
       ELSE /\ IF data.rootFolderPath # ""
               THEN /\ rootFolderPath' = data.rootFolderPath
                    /\ UNCHANGED calls
               ELSE \E ok \in BOOLEAN :
                    /\ calls' = Append(calls, Call("rootfolder", "", "ResolveRootFolder",
                                                   IF ~ok THEN "error"
                                                   ELSE IF upstream.rootFolders = <<>> THEN "empty"
                                                   ELSE "results"))
                    /\ rootFolderPath' = IF ok THEN FirstRootPath(upstream.rootFolders) ELSE ""
            /\ IF RootFolderMissing(rootFolderPath')
               THEN Throw(NoRootFolder)
               ELSE pc' = "foreignAuthorId" /\ UNCHANGED result
    /\ UNCHANGED <<inputVars, book, authorVars, idx, qpId, mpId, inFlight, authorIdVars,
                   editionVars, addPayload, addResponse>>

AuthorForeignId_FromLookup(a) ==
    IF authorData.foreignAuthorId # "" THEN authorData.foreignAuthorId
    ELSE IF a.foreignAuthorId # "" THEN a.foreignAuthorId
    ELSE IF a.foreignId # "" THEN a.foreignId
    ELSE a.foreign_id

\* book.author.foreignAuthorId || .foreignId || .foreign_id || null
AuthorForeignId(a) ==
    IF a.foreignAuthorId # "" THEN a.foreignAuthorId
    ELSE IF a.foreignId # "" THEN a.foreignId
    ELSE a.foreign_id

\* the names the foreign identifier is looked up by
CandidateNames(b) ==
    (IF b.author.authorName # "" THEN <<b.author.authorName>> ELSE <<>>)
        \o (IF b.author.name # "" THEN <<b.author.name>> ELSE <<>>)
        \o (IF b.authorTitle # "" THEN <<b.authorTitle>> ELSE <<>>)

\* if (!book.author.name && book.author.authorName) book.author.name = authorName
NormalizeAuthorName(b) ==
    IF b.author.name = "" /\ b.author.authorName # ""
    THEN [b EXCEPT !.author.name = b.author.authorName]
    ELSE b

MissingForeignAuthorId == "Readarr add requires author.foreignAuthorId; author lookup did not provide it"

ForeignAuthorIdMissing_Never(fid) == FALSE

\* if (!foreignAuthorId) throw
ForeignAuthorIdMissing(fid) == fid = ""

\* the test after the lookup loop, and the normalisation that follows it
AfterForeignAuthorIdLoop ==
    IF ForeignAuthorIdMissing(foreignAuthorId')
    THEN /\ Throw(MissingForeignAuthorId)
         /\ UNCHANGED book
    ELSE /\ book' = NormalizeAuthorName(book)
         /\ pc' = "editions"
         /\ UNCHANGED result

BeginForeignAuthorId ==
    /\ pc = "foreignAuthorId"
    /\ foreignAuthorId' = AuthorForeignId(book.author)
    /\ IF foreignAuthorId' # ""
       THEN /\ AfterForeignAuthorIdLoop
            /\ UNCHANGED <<candidateNames, idx>>
       ELSE /\ candidateNames' = CandidateNames(book)
            /\ idx' = 1
            /\ IF candidateNames' = <<>>
               THEN AfterForeignAuthorIdLoop
               ELSE pc' = "foreignAuthorIdLoop" /\ UNCHANGED <<book, result>>
    /\ UNCHANGED <<inputVars, authorVars, profileVars, editionVars, addPayload, addResponse,
                   calls>>

ForeignAuthorIdLookup ==
    /\ pc = "foreignAuthorIdLoop"
    /\ \E resp \in Responses(upstream.authors) :
        /\ calls' = Append(calls, Call("author/lookup", candidateNames[idx],
                                       "ResolveForeignAuthorId", LoopOutcome(resp)))
        /\ IF resp.ok /\ resp.results # <<>> /\ resp.results[1].foreignAuthorId # ""
           THEN /\ foreignAuthorId' = resp.results[1].foreignAuthorId
                /\ AfterForeignAuthorIdLoop
                /\ UNCHANGED idx
           ELSE /\ foreignAuthorId' = foreignAuthorId
                /\ IF idx < Len(candidateNames)
                   THEN idx' = NextIndex(idx) /\ pc' = "foreignAuthorIdLoop" /\ UNCHANGED <<book, result>>
                   ELSE idx' = idx /\ AfterForeignAuthorIdLoop
    /\ UNCHANGED <<inputVars, authorVars, profileVars, candidateNames, editionVars, addPayload,
                   addResponse>>

(***************************************************************************)
(* Edition resolution: Pass A, Pass B, their synthetic editions.           *)
(***************************************************************************)
\* book.author?.authorName || book.author?.name
AuthorNameOf(b) == IF b.author.authorName # "" THEN b.author.authorName ELSE b.author.name

Opt(cond, v) == IF cond THEN <<v>> ELSE <<>>

\* book.isbn10 || book.isbn
Isbn10Of(b) == IF b.isbn10 # "" THEN b.isbn10 ELSE b.isbn

Contains(q, v) == \E i \in 1..Len(q) : q[i] = v

EditionTerms_BookIdFirst(b, term) ==
    LET aName == AuthorNameOf(b)
        t0 == Opt(b.foreignBookId # "", "goodreads:" \o b.foreignBookId)
                \o Opt(b.foreignEditionId # "", "goodreads:" \o b.foreignEditionId)
                \o Opt(b.isbn13 # "", "isbn:" \o b.isbn13)
                \o Opt(Isbn10Of(b) # "", "isbn:" \o Isbn10Of(b))
                \o Opt(b.asin # "", "asin:" \o b.asin)
                \o (IF b.title # "" /\ aName # ""
                    THEN <<b.title \o " " \o aName, aName \o " " \o b.title>>
                    ELSE <<>>)
                \o Opt(b.title # "", b.title)
    IN t0 \o Opt(term # "" /\ ~Contains(t0, term), term)

\* the search terms of Pass A
EditionTerms(b, term) ==
    LET aName == AuthorNameOf(b)
        t0 == Opt(b.foreignEditionId # "", "goodreads:" \o b.foreignEditionId)
                \o Opt(b.foreignBookId # "", "goodreads:" \o b.foreignBookId)
                \o Opt(b.isbn13 # "", "isbn:" \o b.isbn13)
                \o Opt(Isbn10Of(b) # "", "isbn:" \o Isbn10Of(b))
                \o Opt(b.asin # "", "asin:" \o b.asin)
                \o (IF b.title # "" /\ aName # ""
                    THEN <<b.title \o " " \o aName, aName \o " " \o b.title>>
                    ELSE <<>>)
                \o Opt(b.title # "", b.title)
    IN t0 \o Opt(term # "" /\ ~Contains(t0, term), term)

\* the search terms of Pass B
ExtraTerms(b, term) ==
    LET aName2 == AuthorNameOf(b)
    IN Opt(b.foreignBookId # "", "goodreads:" \o b.foreignBookId)
         \o Opt(b.foreignEditionId # "", "goodreads:" \o b.foreignEditionId)
         \o Opt(b.isbn13 # "", "isbn:" \o b.isbn13)
         \o Opt(Isbn10Of(b) # "", "isbn:" \o Isbn10Of(b))
         \o Opt(b.asin # "", "asin:" \o b.asin)
         \o (IF b.title # "" /\ aName2 # ""
             THEN <<b.title \o " " \o aName2, aName2 \o " " \o b.title>>
             ELSE <<>>)
         \o Opt(b.title # "", b.title)
         \o Opt(term # "", term)

BestEdition_First(list, title) == list[1]

\* arr.find(e => e.title && book.title && same title ignoring case) || arr[0]
BestEdition(list, title) ==
    LET hits == {i \in 1..Len(list) :
                    /\ list[i].title # ""
                    /\ title # ""
                    /\ toLowerCase(list[i].title) = toLowerCase(title)}
    IN IF hits # {} THEN list[First(hits)] ELSE list[1]

\* the fields Pass B's find accepts as an identifier
HasLookupIdentifier(e) ==
    e.foreignEditionId # "" \/ e.foreignId # "" \/ e.goodreadsId # "" \/ e.editionId # ""

\* arr2.find(e => e.foreignEditionId || ...) || arr2[0]
ValidEdition(arr2) ==
    LET hits == {i \in 1..Len(arr2) : HasLookupIdentifier(arr2[i])}
    IN IF hits # {} THEN arr2[First(hits)] ELSE arr2[1]

\* the fields the Pass B trigger accepts as an identifier
HasEditionIdentifier(e) ==
    \/ e.foreignEditionId # "" \/ e.foreignId # "" \/ e.foreign_id # ""
    \/ e.goodreadsId # "" \/ e.editionId # ""

SomeEditionIdentifier_Every(b) ==
    \A i \in 1..Len(b.editions) : HasEditionIdentifier(b.editions[i])

\* (book.editions || []).some(...)
SomeEditionIdentifier(b) == \E i \in 1..Len(b.editions) : HasEditionIdentifier(b.editions[i])

\* the minimal edition object built from the book's own fields
BookEdition(b, id) ==
    [NoEdition EXCEPT !.title = b.title, !.titleSlug = b.titleSlug, !.foreignEditionId = id,
                      !.monitored = TRUE, !.manualAdd = TRUE]

\* first non-empty string of a sequence, '' if none
RECURSIVE FirstTruthy(_)
FirstTruthy(q) ==
    IF q = <<>> THEN "" ELSE IF Head(q) # "" THEN Head(q) ELSE FirstTruthy(Tail(q))

\* const arr = await r.json(), the list a lookup of the loop has answered
\* with; empty when the answer was not 2xx or the fetch was rejected
JsonArray(resp) == IF resp.ok THEN resp.results ELSE <<>>

BeginEditionPassA ==
    /\ pc = "editions"
    /\ IF book.editions = <<>>
       THEN /\ editionTerms' = EditionTerms(book, data.term)
            /\ foundEdition' = FALSE
            /\ idx' = 1
            /\ pc' = IF editionTerms' # <<>> THEN "passALoop" ELSE "passASynthesize"
       ELSE /\ pc' = "checkEditions"
            /\ UNCHANGED <<editionTerms, foundEdition, idx>>
    /\ UNCHANGED <<inputVars, book, authorVars, profileVars, authorIdVars, extraTerms, arr,
                   hasForeignEditionIdentifier, addPayload, addResponse, calls, result>>

PassALookup ==
    /\ pc = "passALoop"
    /\ \E resp \in Responses(upstream.editions) :
        /\ calls' = Append(calls, Call("edition/lookup", editionTerms[idx],
                                       "ResolveEdition", LoopOutcome(resp)))
        /\ arr' = JsonArray(resp)
        /\ IF resp.ok /\ resp.results # <<>>
           THEN /\ book' = [book EXCEPT !.editions =
                                <<[BestEdition(resp.results, book.title) EXCEPT !.monitored = TRUE]>>]
                /\ foundEdition' = TRUE
                /\ pc' = "checkEditions"
                /\ UNCHANGED idx
           ELSE /\ IF idx < Len(editionTerms)
                   THEN idx' = NextIndex(idx) /\ pc' = "passALoop"
                   ELSE idx' = idx /\ pc' = "passASynthesize"
                /\ UNCHANGED <<book, foundEdition>>
    /\ UNCHANGED <<inputVars, authorVars, profileVars, authorIdVars, editionTerms, extraTerms,
                   hasForeignEditionIdentifier, addPayload, addResponse, result>>

SyntheticEditionId_NoStamp(b, now) ==
    FirstTruthy(<<b.foreignEditionId, b.foreignBookId, "synthetic-" \o b.title>>)

\* book.foreignEditionId || book.foreignBookId || `synthetic-${Date.now()}`
SyntheticEditionId(b, now) ==
    FirstTruthy(<<b.foreignEditionId, b.foreignBookId, "synthetic-" \o ToString(now)>>)

\* if (!foundEdition && book.title): the synthetic edition of Pass A
PassASynthesize ==
    /\ pc = "passASynthesize"
    /\ \E now \in Clock :
        book' = IF book.title # ""
                THEN [book EXCEPT !.editions = <<BookEdition(book, SyntheticEditionId(book, now))>>]
                ELSE book
    /\ pc' = "checkEditions"
    /\ UNCHANGED <<inputVars, authorVars, idx, profileVars, authorIdVars, editionVars,
                   addPayload, addResponse, calls, result>>

CheckEditionIdentifiers ==
    /\ pc = "checkEditions"
    /\ hasForeignEditionIdentifier' = SomeEditionIdentifier(book)
    /\ arr' = <<>>
    /\ IF hasForeignEditionIdentifier'
       THEN /\ pc' = "assemble"
            /\ UNCHANGED <<extraTerms, foundEdition, idx>>
       ELSE /\ extraTerms' = ExtraTerms(book, data.term)
            /\ foundEdition' = FALSE
            /\ idx' = 1
            /\ pc' = IF extraTerms' # <<>> THEN "passBLoop" ELSE "passBFallback"
    /\ UNCHANGED <<inputVars, book, authorVars, profileVars, authorIdVars, editionTerms,
                   addPayload, addResponse, calls, result>>

PassBLookup ==
    /\ pc = "passBLoop"
    /\ \E resp \in Responses(upstream.editions) :
        /\ calls' = Append(calls, Call("edition/lookup", extraTerms[idx],
                                       "ResolveEdition", LoopOutcome(resp)))
        /\ arr' = JsonArray(resp)
        /\ IF resp.ok /\ resp.results # <<>>
           THEN LET validEdition == ValidEdition(resp.results)
                IN /\ book' = [book EXCEPT !.editions = <<[validEdition EXCEPT !.monitored = TRUE]>>]
                   /\ hasForeignEditionIdentifier' =
                        (validEdition.foreignEditionId # "" \/ validEdition.foreignId # ""
                            \/ validEdition.goodreadsId # "")
                   /\ foundEdition' = TRUE
                   /\ pc' = "assemble"
                   /\ UNCHANGED idx
           ELSE /\ IF idx < Len(extraTerms)
                   THEN idx' = NextIndex(idx) /\ pc' = "passBLoop"
                   ELSE idx' = idx /\ pc' = "passBFallback"
                /\ UNCHANGED <<book, foundEdition, hasForeignEditionIdentifier>>
    /\ UNCHANGED <<inputVars, authorVars, profileVars, authorIdVars, editionTerms, extraTerms,
                   addPayload, addResponse, result>>

\* if (!foundEdition): the fallback edition of Pass B
PassBFallback ==
    /\ pc = "passBFallback"
    /\ \E now \in Clock :
        book' = [book EXCEPT !.editions =
                    <<BookEdition(book, FirstTruthy(<<book.foreignEditionId, book.foreignBookId,
                                                      book.isbn13, book.isbn10,
                                                      "fallback-" \o ToString(now)>>))>>]
    /\ hasForeignEditionIdentifier' = TRUE
    /\ pc' = "assemble"
    /\ UNCHANGED <<inputVars, authorVars, idx, profileVars, authorIdVars, editionTerms,
                   extraTerms, foundEdition, arr, addPayload, addResponse, calls, result>>

(***************************************************************************)
(* Payload assembly and submission.                                        *)
(***************************************************************************)
\* e.foreignEditionId || e.goodreadsEditionId || e.goodreadsId || e.foreignId
\*   || e.foreign_id || e.editionId || e.id || ''
TransformId(e) ==
    FirstTruthy(<<e.foreignEditionId, e.goodreadsEditionId, e.goodreadsId, e.foreignId,
                  e.foreign_id, e.editionId, e.id>>)

\* one entry of the AddBookEdition model
TransformEdition(e, b) ==
    [NoEdition EXCEPT !.title = IF e.title # "" THEN e.title ELSE b.title,
                      !.titleSlug = IF e.titleSlug # "" THEN e.titleSlug ELSE b.titleSlug,
                      !.foreignEditionId = TransformId(e),
                      !.monitored = TRUE, !.manualAdd = TRUE]

TransformEditions_NoFilter(es, b) == [i \in 1..Len(es) |-> TransformEdition(es[i], b)]

\* editions.map(...).filter(e => !!e.foreignEditionId && e.foreignEditionId !== '')
TransformEditions(es, b) ==
    SelectSeq([i \in 1..Len(es) |-> TransformEdition(es[i], b)],
              LAMBDA e : e.foreignEditionId # "")

\* the book identifiers tried when the transform leaves nothing; an
\* identifier of blanks only is dropped
PossibleIds(b) ==
    LET kept(id) == IF trim(id) # "" THEN id ELSE ""
    IN FilterTruthy(<<kept(b.foreignEditionId), kept(b.foreignBookId), kept(b.foreignId),
                      kept(b.isbn13), kept(b.isbn10), kept(b.isbn), kept(b.goodreadsId),
                      kept(b.editionId)>>)

\* s.replace(/[^a-z0-9]/g, '')
RECURSIVE KeepAlnum(_)
KeepAlnum(s) ==
    IF s = "" THEN ""
    ELSE (IF Char(s, 1) \in LowerSet \cup DigitChars THEN Char(s, 1) ELSE "") \o KeepAlnum(Tail(s))

\* the last-resort identifier; an absent title prints as "undefined"
SyntheticId(b, now) ==
    FirstTruthy(<<b.foreignBookId, b.foreignEditionId, b.isbn13, b.isbn10,
                  "syn-" \o (IF b.title = "" THEN "undefined" ELSE KeepAlnum(toLowerCase(b.title)))
                      \o "-" \o ToString(now)>>)

EditionsPayload_NoSynthesis(d, b, now) ==
    IF d.foreignEditionId # "" THEN <<BookEdition(b, d.foreignEditionId)>>
    ELSE IF TransformEditions(b.editions, b) # <<>> THEN TransformEditions(b.editions, b)
    ELSE IF PossibleIds(b) # <<>> THEN <<BookEdition(b, PossibleIds(b)[1])>>
    ELSE <<>>

\* editionsPayload: explicit edition, else the transform, else the fallbacks
EditionsPayload(d, b, now) ==
    LET transformed ==
            IF d.foreignEditionId # ""
            THEN <<BookEdition(b, d.foreignEditionId)>>
            ELSE TransformEditions(b.editions, b)
        fromIds ==
            IF transformed = <<>> /\ PossibleIds(b) # <<>>
            THEN <<BookEdition(b, PossibleIds(b)[1])>>
            ELSE transformed
    IN IF fromIds = <<>> THEN <<BookEdition(b, SyntheticId(b, now))>> ELSE fromIds

BuildPayload_AuthorFollowsFlag(d, b, qp, mp, fid, root, editions) ==
    [built |-> TRUE,
     monitored |-> FlagOrTrue(d.monitored),
     addOptions |-> [searchForNewBook |-> FlagOrTrue(d.searchForNewBook)],
     author |-> [monitored |-> FlagOrTrue(d.monitored),
                 qualityProfileId |-> parseInt(qp),
                 metadataProfileId |-> parseInt(mp),
                 foreignAuthorId |-> fid,
                 rootFolderPath |-> root],
     editions |-> editions,
     hasForeignBookId |-> b.foreignBookId # "",
     foreignBookId |-> b.foreignBookId]

\* addPayload, with foreignBookId set only for a book that has one
BuildPayload(d, b, qp, mp, fid, root, editions) ==
    [built |-> TRUE,
     monitored |-> FlagOrTrue(d.monitored),
     addOptions |-> [searchForNewBook |-> FlagOrTrue(d.searchForNewBook)],
     author |-> [monitored |-> FALSE,
                 qualityProfileId |-> parseInt(qp),
                 metadataProfileId |-> parseInt(mp),
                 foreignAuthorId |-> fid,
                 rootFolderPath |-> root],
     editions |-> editions,
     hasForeignBookId |-> b.foreignBookId # "",
     foreignBookId |-> b.foreignBookId]

AssemblePayload ==
    /\ pc = "assemble"
    /\ \E now \in Clock :
        LET editionsPayload == EditionsPayload(data, book, now)
        IN IF editionsPayload = <<>>
           THEN /\ Throw("Unable to create valid edition for Readarr add. Diagnostics: "
                            \o "{\"term\":\"" \o data.term \o "\",\"title\":\"" \o book.title \o "\"}")
                /\ UNCHANGED addPayload
           ELSE /\ addPayload' = BuildPayload(data, book, qpId, mpId, foreignAuthorId,
                                              rootFolderPath, editionsPayload)
                /\ pc' = "submit"
                /\ UNCHANGED result
    /\ arr' = <<>>
    /\ UNCHANGED <<inputVars, book, authorVars, idx, profileVars, authorIdVars, editionTerms,
                   extraTerms, foundEdition, hasForeignEditionIdentifier, addResponse, calls>>

SuccessMessage_NoTitle(d, b) == "Successfully added book to Readarr"

\* the message of a successful add
SuccessMessage(d, b) ==
    "Successfully added book \"" \o (IF b.title = "" THEN "undefined" ELSE b.title)
        \o "\" to Readarr"
        \o (IF FlagOrTrue(d.searchForNewBook) THEN " and triggered search" ELSE "")

AddFailedReason_NoBody(resp) ==
    "Failed to add book: " \o resp.status \o " " \o resp.statusText

\* the message thrown on a non-2xx answer of the add endpoint
AddFailedReason(resp) ==
    "Failed to add book: " \o resp.status \o " " \o resp.statusText \o " - " \o resp.body

SubmitAdd ==
    /\ pc = "submit"
    /\ \E resp \in AddResponses :
        /\ addResponse' = resp
        /\ calls' = Append(calls, Call("book", "", "Submit",
                                       IF resp.ok /\ resp.json THEN "results" ELSE "error"))
        /\ IF ~resp.ok
           THEN Throw(AddFailedReason(resp))
           ELSE IF ~resp.json
                THEN \* await addResponse.json() rejects
                     Throw("Unexpected token < in JSON at position 0")
                ELSE /\ result' = [status |-> "success", reason |-> "", book |-> resp.body,
                                   message |-> SuccessMessage(data, book)]
                     /\ pc' = "done"
    /\ UNCHANGED <<inputVars, book, authorVars, idx, profileVars, authorIdVars, editionVars,
                   addPayload>>

Next ==
    \/ LookupAuthor
    \/ LookupAuthorFallback
    \/ BeginAuthorResolution
    \/ PrimaryCandidateLookup
    \/ SecondaryCandidateLookup
    \/ BookMetadataLookup
    \/ SynthesizeAuthor
    \/ ResolveProfiles
    \/ AwaitProfiles
    \/ ResolveRootFolder
    \/ BeginForeignAuthorId
    \/ ForeignAuthorIdLookup
    \/ BeginEditionPassA
    \/ PassALookup
    \/ PassASynthesize
    \/ CheckEditionIdentifiers
    \/ PassBLookup
    \/ PassBFallback
    \/ AssemblePayload
    \/ SubmitAdd

Spec == Init /\ [][Next]_vars

\* Every awaited upstream call returns, so a statement that can run does run.
\* Some statement can run exactly when the invocation is not over, which makes
\* this weak fairness of Next with the enabling condition written out.
FairSpec == Spec /\ ([]<>(pc = "done") \/ []<><<Next>>_vars)

(***************************************************************************)
(* The author-name helpers run on their own: extractAuthorNameCandidates   *)
(* (with cleanupAuthorName) on a book and a term, then pickBestAuthorMatch *)
(* on a result list and one of the candidates.                             *)
(***************************************************************************)
\* texts of the form "Title by Author Name (Series #3)", with their parts
SeriesForms ==
    {[text |-> "Dune by Frank Herbert (Saga #3)", title |-> "Dune", author |-> "Frank Herbert"],
     [text |-> "Emma by Jane Austen (Classics #12)", title |-> "Emma", author |-> "Jane Austen"]}

\* author results whose names differ in letter case, punctuation and extent
NamePool ==
    {Author("", "Frank Herbert Jr", "a1"), Author("FRANK HERBERT", "", "a2"),
     Author("", "F Herbert", "a3"), Author("Herbert", "", "a4"),
     Author("", "", "a5"), Author("Brian Herbert", "", "a6")}

\* author strings of the comma form "Last, First", with their parts
CommaForms ==
    {[text |-> "Herbert, Frank", last |-> "Herbert", first |-> "Frank"],
     [text |-> "Le Guin,Ursula", last |-> "Le Guin", first |-> "Ursula"],
     [text |-> " Austen ,  Jane ", last |-> "Austen", first |-> "Jane"],
     [text |-> "Li, A", last |-> "Li", first |-> "A"]}

HelperInputs ==
    \* a series-form text as the title, as the authorTitle and as the term
    {[term |-> f.title, book |-> [NoBook EXCEPT !.title = f.text],
      results |-> <<Author("FRANK HERBERT", "", "a2")>>] : f \in SeriesForms}
    \cup
    {[term |-> f.title, book |-> [NoBook EXCEPT !.title = f.title, !.authorTitle = f.text],
      results |-> <<Author("FRANK HERBERT", "", "a2")>>] : f \in SeriesForms}
    \cup
    {[term |-> f.text, book |-> [NoBook EXCEPT !.title = f.title],
      results |-> <<Author("FRANK HERBERT", "", "a2")>>] : f \in SeriesForms}
    \* result lists to pick from, for a plain and for a punctuated candidate
    \cup
    {[term |-> "Dune", book |-> [NoBook EXCEPT !.title = "Dune", !.authorTitle = at],
      results |-> rs] :
        at \in {"Frank Herbert", "F. Herbert", "Herbert, Frank"},
        rs \in SeqsUpTo(NamePool, MaxResults) \ {<<>>}}
    \* a comma-form authorTitle, beside a title or a term that names a short author
    \cup
    {[term |-> tt[1], book |-> [NoBook EXCEPT !.title = tt[2], !.authorTitle = f.text],
      results |-> <<Author("FRANK HERBERT", "", "a2")>>] :
        f \in CommaForms,
        tt \in {<<"Dune", "Dune">>, <<"Dune", "">>, <<"Up", "Up by Al">>, <<"Up by Al", "Up">>}}

HelperInit ==
    /\ \E inp \in HelperInputs :
        /\ data = [BaseData EXCEPT !.term = inp.term, !.book = inp.book]
        /\ book = inp.book
        /\ authorResults = inp.results
    /\ upstream = BaseUpstream
    /\ pc = "extract"
    /\ Fresh
    /\ Direct

\* const authorCandidates = extractAuthorNameCandidates(book, searchTerm)
ExtractCandidates ==
    /\ pc = "extract"
    /\ searchTerm' = data.term
    /\ authorCandidates' = extractAuthorNameCandidates(book, data.term)
    /\ pc' = IF authorCandidates' # <<>> THEN "pick" ELSE "done"
    /\ UNCHANGED <<inputVars, book, authorData, idx, usedStrategy, profileVars, authorIdVars,
                   editionVars, addPayload, addResponse, calls, result>>

\* const best = pickBestAuthorMatch(authorResults, cand), for one candidate
PickBest ==
    /\ pc = "pick"
    /\ \E i \in 1..Len(authorCandidates) :
        /\ idx' = i
        /\ book' = [book EXCEPT !.author = pickBestAuthorMatch(authorResults, authorCandidates[i])]
    /\ pc' = "picked"
    /\ UNCHANGED <<inputVars, authorVars, profileVars, authorIdVars, editionVars, addPayload,
                   addResponse, calls, result>>

HelperNext == ExtractCandidates \/ PickBest

HelperSpec == HelperInit /\ [][HelperNext]_vars

TypeOK ==
    /\ pc \in {"start", "lookupFallback", "resolveAuthor", "primaryLoop", "secondaryLoop",
               "bookMetadata", "synthesizeAuthor", "profiles", "profilesWait", "rootFolder",
               "foreignAuthorId",
               "foreignAuthorIdLoop", "editions", "passALoop", "passASynthesize",
               "checkEditions", "passBLoop", "passBFallback", "assemble", "submit", "done",
               "extract", "pick", "picked",
               "handler", "parse", "radarr", "sonarr", "readarr", "overseerr", "fetch",
               "addMovie", "movieAdd", "addSeries", "seriesAdd", "seriesSearch", "responded",
               "proxy", "proxyParse", "proxyFetch"}
    /\ result.status \in {"pending", "success", "failed"}

(***************************************************************************)
(* Properties.                                                             *)
(***************************************************************************)
\* the positions of the log that hold a request to api
CallsTo(api) == {i \in 1..Len(calls) : calls[i].api = api}

\* the positions of the log issued by a stage
CallsOf(stage) == {i \in 1..Len(calls) : calls[i].stage = stage}

Count(api) == Cardinality(CallsTo(api))

\* the calls of one stage are consecutive: no stage is entered twice
StagesContiguous ==
    \A i \in 1..Len(calls) : \A k \in i..Len(calls) :
        calls[i].stage = calls[k].stage =>
            \A j \in i..k : calls[j].stage = calls[i].stage

\* every fetch of the profile and root-folder stages returned a non-empty list
ListsFetched ==
    \A i \in CallsOf("ResolveProfiles") \cup CallsOf("ResolveRootFolder") :
        calls[i].outcome = "results"

\* C1: the add POST is issued at most once, as the last call, and only when
\* author, profiles, root folder and editions are resolved; a failed stage
\* ends the invocation with no add POST, and no stage is run a second time.
C1_SubmitOnceAfterAllStages ==
    /\ Count("book") <= 1
    /\ Count("qualityprofile") <= 1
    /\ Count("metadataprofile") <= 1
    /\ Count("rootfolder") <= 1
    /\ StagesContiguous
    /\ Count("book") = 1 =>
        /\ calls[Len(calls)].api = "book"
        /\ pc = "done"
        /\ book.author.present
        /\ foreignAuthorId # ""
        /\ Truthy(qpId) /\ Truthy(mpId)
        /\ rootFolderPath # ""
        /\ ListsFetched
        /\ addPayload.built /\ addPayload.editions # <<>>
    /\ result.status = "failed" =>
        /\ pc = "done"
        /\ Count("book") = 0 \/ calls[Len(calls)].outcome = "error"

\* a successful add after the profile lists and the root folders were fetched
C1_Witness ==
    /\ result.status = "success"
    /\ Count("book") = 1
    /\ Count("qualityprofile") = 1
    /\ Count("rootfolder") = 1

(***************************************************************************)
(* Stages of the workflow, in the order the code runs them.                *)
(***************************************************************************)
StageOrder ==
    <<"ExtractSearchTerm", "LookupAuthorCandidate", "ResolveAuthor", "ResolveProfiles",
      "ResolveRootFolder", "ResolveForeignAuthorId", "ResolveEdition", "AssemblePayload",
      "Submit", "Respond">>

StageRank(stage) == CHOOSE k \in 1..Len(StageOrder) : StageOrder[k] = stage

\* the stage a statement position belongs to
StageAt(p) ==
    CASE p = "start" -> "ExtractSearchTerm"
      [] p = "lookupFallback" -> "LookupAuthorCandidate"
      [] p \in {"resolveAuthor", "primaryLoop", "secondaryLoop", "bookMetadata",
                "synthesizeAuthor"} -> "ResolveAuthor"
      [] p \in {"profiles", "profilesWait"} -> "ResolveProfiles"
      [] p = "rootFolder" -> "ResolveRootFolder"
      [] p \in {"foreignAuthorId", "foreignAuthorIdLoop"} -> "ResolveForeignAuthorId"
      [] p \in {"editions", "passALoop", "passASynthesize", "checkEditions", "passBLoop",
                "passBFallback"} -> "ResolveEdition"
      [] p = "assemble" -> "AssemblePayload"
      [] p = "submit" -> "Submit"
      [] OTHER -> "Respond"

\* the invocation is past the given stage (or over)
Past(stage) == StageRank(StageAt(pc)) > StageRank(stage)

\* the add POST was issued
Submitted == Count("book") = 1

\* C2: every edition list of an add payload is non-empty and each of its
\* entries has a non-empty foreignEditionId, whatever the caller sent and
\* whatever the edition lookups answered; nothing is posted without a payload.
C2_EditionsCarryIdentifier ==
    /\ Count("book") > 0 => addPayload.built
    /\ addPayload.built =>
        /\ addPayload.editions # <<>>
        /\ \A i \in 1..Len(addPayload.editions) :
                addPayload.editions[i].foreignEditionId # ""

\* a payload was posted for a book whose only edition has no identifier and
\* whose edition lookups all came back without a result
C2_Witness ==
    /\ Submitted
    /\ data.book.editions # <<>>
    /\ \A i \in 1..Len(data.book.editions) : TransformId(data.book.editions[i]) = ""
    /\ CallsTo("edition/lookup") # {}
    /\ \A i \in CallsTo("edition/lookup") : calls[i].outcome = "none"

\* the identifiers an author record carries
OwnForeignIds(a) == {a.foreignAuthorId, a.foreignId, a.foreign_id} \ {""}

\* every lookup of the author's foreign identifier came back without a result
NoForeignIdObtained ==
    \A i \in CallsOf("ResolveForeignAuthorId") : calls[i].outcome = "none"

\* C3: a payload always carries a non-empty author.foreignAuthorId, the
\* author's own or one an author lookup returned; when the author has none
\* and the lookups by name return nothing, the workflow fails with no edition
\* lookup and no add POST.
C3_ForeignAuthorIdRequired ==
    /\ addPayload.built =>
        /\ addPayload.author.foreignAuthorId # ""
        /\ addPayload.author.foreignAuthorId \in
                OwnForeignIds(book.author) \cup {a.foreignAuthorId : a \in upstream.authors}
    /\ (Past("ResolveForeignAuthorId") /\ book.author.present
            /\ OwnForeignIds(book.author) = {} /\ NoForeignIdObtained) =>
        /\ result.status = "failed"
        /\ Count("edition/lookup") = 0
        /\ Count("book") = 0
    /\ result.reason = MissingForeignAuthorId =>
        /\ OwnForeignIds(book.author) = {}
        /\ ~addPayload.built
        /\ Count("book") = 0

\* the lookups by name were tried and the workflow failed for want of an id
C3_Witness ==
    /\ result.status = "failed"
    /\ result.reason = MissingForeignAuthorId
    /\ CallsOf("ResolveForeignAuthorId") # {}
    /\ NoForeignIdObtained

\* the stage of the written description that a request to api belongs to
SpecStageOf(api) ==
    CASE api \in {"author/lookup", "bookinfo/author", "book/lookup"} -> "ResolveAuthor"
      [] api \in {"qualityprofile", "metadataprofile"} -> "ResolveProfiles"
      [] api = "rootfolder" -> "ResolveRootFolder"
      [] api = "edition/lookup" -> "ResolveEdition"
      [] OTHER -> "Submit"

\* C4 as stated: the stages run in the order LookupAuthorCandidate,
\* ResolveAuthor, ResolveProfiles, ResolveRootFolder, ResolveEdition, Submit,
\* so no author lookup follows a profile or root-folder request.
C4_NoAuthorLookupAfterProfiles ==
    \A i \in 1..Len(calls) : \A j \in i..Len(calls) :
        StageRank(SpecStageOf(calls[i].api)) <= StageRank(SpecStageOf(calls[j].api))

\* C4 as amended: the stages run in the order ExtractSearchTerm,
\* LookupAuthorCandidate, ResolveAuthor, ResolveProfiles, ResolveRootFolder,
\* ResolveForeignAuthorId, ResolveEdition, AssemblePayload, Submit, Respond and
\* never branch back: no step returns to an earlier stage, and every request
\* a step issues belongs to a stage no earlier than the stage of any request
\* issued before it.
C4_StagesInOrder ==
    [][/\ StageRank(StageAt(pc)) <= StageRank(StageAt(pc'))
       /\ \A j \in (Len(calls) + 1)..Len(calls') :
            /\ StageRank(StageAt(pc)) <= StageRank(calls'[j].stage)
            /\ StageRank(calls'[j].stage) <= StageRank(StageAt(pc'))
            /\ \A i \in 1..Len(calls) :
                    StageRank(calls[i].stage) <= StageRank(calls'[j].stage)]_vars

\* a successful add in which the root folders were fetched and the author's
\* foreign identifier was then looked up by name
C4_Witness ==
    /\ result.status = "success"
    /\ \E i \in CallsTo("rootfolder") : \E j \in CallsOf("ResolveForeignAuthorId") :
            i < j /\ calls[j].api = "author/lookup"

\* neither term nor the book's authorTitle, author name or title is non-empty
NoSearchTerm ==
    /\ data.term = ""
    /\ \/ ~data.hasBook
       \/ /\ data.book.authorTitle = ""
          /\ data.book.author.name = ""
          /\ data.book.author.authorName = ""
          /\ data.book.title = ""

\* C5: when neither term nor the book's authorTitle, author name or title
\* gives a non-empty search term, the workflow fails without issuing any
\* request.
C5_NoTermNoCall ==
    NoSearchTerm =>
        /\ calls = <<>>
        /\ pc \in {"start", "done"}
        /\ pc = "done" => result.status = "failed"

\* a request with a book object but nothing to search by has failed
C5_Witness ==
    /\ NoSearchTerm
    /\ data.hasBook
    /\ pc = "done"
    /\ result.status = "failed"

BothProfileListsEmpty ==
    upstream.qualityProfiles = <<>> /\ upstream.metadataProfiles = <<>>

\* the request leaves out (or gives a falsy value for) one of the profile ids
OmitsProfileId == ~Truthy(data.qualityProfileId) \/ ~Truthy(data.metadataProfileId)

NoProfilesAvailable ==
    {"No Readarr quality profiles available", "No Readarr metadata profiles available"}

\* both profile lists were fetched
ProfileListsReturned ==
    /\ Count("qualityprofile") = 1
    /\ \A i \in CallsOf("ResolveProfiles") : calls[i].outcome # "error"

\* C6 as stated: with both upstream profile lists empty the workflow fails
\* and posts nothing, for every request, also one that supplies both ids.
C6_EmptyListsAlwaysFail ==
    BothProfileListsEmpty =>
        /\ Count("book") = 0
        /\ Past("ResolveProfiles") => result.status = "failed"

\* C6 as amended: when the request omits a profile id and both upstream
\* profile lists are empty, the workflow fails (with the no-profiles failure
\* when the lists were returned) and posts nothing; when both ids are
\* supplied the lists are not fetched.
C6_EmptyListsFailWhenFetched ==
    /\ (BothProfileListsEmpty /\ OmitsProfileId /\ Past("ResolveProfiles")) =>
        /\ result.status = "failed"
        /\ Count("book") = 0
        /\ ProfileListsReturned => result.reason \in NoProfilesAvailable
    /\ ~OmitsProfileId => Count("qualityprofile") = 0 /\ Count("metadataprofile") = 0

\* one id supplied, both lists returned empty: the no-profiles failure
C6_Witness ==
    /\ BothProfileListsEmpty
    /\ Truthy(data.qualityProfileId)
    /\ ~Truthy(data.metadataProfileId)
    /\ ProfileListsReturned
    /\ result.status = "failed"
    /\ result.reason \in NoProfilesAvailable

\* the payload value p is the number the caller gave as v
SameNumber(p, v) ==
    \/ v.t = "number" /\ p = v
    \/ v.t = "string" /\ p.t = "number" /\ ToString(p.n) = v.s

\* p is the caller's value when supplied, else the first entry's id, and a
\* number other than 0
ProfileIdAsClaimed(p, v, list) ==
    /\ IF Truthy(v) THEN SameNumber(p, v) ELSE list # <<>> /\ p = list[1].id
    /\ p.t = "number"
    /\ p.n # 0

\* C7: in a posted payload each profile id is the caller's when supplied, else
\* the id of the first entry of the upstream list, and never 0, null or a
\* non-number.
C7_ProfileIdsFromCallerOrFirst ==
    Submitted =>
        /\ ProfileIdAsClaimed(addPayload.author.qualityProfileId, data.qualityProfileId,
                              upstream.qualityProfiles)
        /\ ProfileIdAsClaimed(addPayload.author.metadataProfileId, data.metadataProfileId,
                              upstream.metadataProfiles)

NoRootFolderFetched ==
    \E i \in CallsTo("rootfolder") : calls[i].outcome # "results"

\* C8: a supplied rootFolderPath is used without fetching the list; an omitted
\* one makes the workflow fetch the list once and use the first entry's path;
\* an empty or failed fetch ends in the no-root-folder failure with no
\* edition lookup and no add POST.
C8_RootFolderResolution ==
    /\ data.rootFolderPath # "" =>
        /\ Count("rootfolder") = 0
        /\ addPayload.built => addPayload.author.rootFolderPath = data.rootFolderPath
    /\ (data.rootFolderPath = "" /\ Past("ResolveRootFolder") /\ result.status # "failed") =>
        Count("rootfolder") = 1
    /\ (data.rootFolderPath = "" /\ addPayload.built) =>
        /\ upstream.rootFolders # <<>>
        /\ addPayload.author.rootFolderPath = upstream.rootFolders[1].path
    /\ NoRootFolderFetched =>
        /\ result.status = "failed"
        /\ result.reason = NoRootFolder
        /\ Count("edition/lookup") = 0
        /\ Count("book") = 0

\* the list of two root folders was fetched and the book was added
C8_Witness ==
    /\ data.rootFolderPath = ""
    /\ Len(upstream.rootFolders) >= 2
    /\ Count("rootfolder") = 1
    /\ result.status = "success"
    /\ addPayload.author.rootFolderPath = upstream.rootFolders[1].path

\* the book came with a complete author and an edition the transform accepts
CompleteInput ==
    /\ data.hasBook
    /\ data.foreignEditionId = ""
    /\ data.book.author.present
    /\ data.book.author.authorName # ""
    /\ data.book.author.foreignAuthorId # ""
    /\ \E i \in 1..Len(data.book.editions) : TransformId(data.book.editions[i]) # ""

\* a payload edition repeats the title and identifier of a caller's edition
FromInput(e) ==
    \E i \in 1..Len(data.book.editions) :
        /\ e.foreignEditionId = TransformId(data.book.editions[i])
        /\ e.title = IF data.book.editions[i].title # "" THEN data.book.editions[i].title
                                                        ELSE data.book.title

\* C9: for a book with a complete author and an edition carrying an
\* identifier in a field the transform accepts, no edition lookup is issued,
\* the caller's editions are kept, and the payload repeats the caller's
\* foreignAuthorId and the editions' titles and identifiers.
C9_CompleteInputUntouched ==
    CompleteInput =>
        /\ Count("edition/lookup") = 0
        /\ book.editions = data.book.editions
        /\ addPayload.built =>
            /\ addPayload.author.foreignAuthorId = data.book.author.foreignAuthorId
            /\ \A i \in 1..Len(addPayload.editions) : FromInput(addPayload.editions[i])

\* every author lookup of the library manager failed or found nothing, every
\* lookup of the bibliographic provider returned a result
PrimaryFailsSecondarySucceeds ==
    /\ calls # <<>>
    /\ \A i \in CallsTo("author/lookup") : calls[i].outcome # "results"
    /\ \A i \in CallsTo("bookinfo/author") : calls[i].outcome = "results"

\* C10: with a primary author lookup that always fails and a secondary one
\* that always succeeds, a book without an author gets its author from the
\* secondary provider, not from a later strategy, and the workflow does not
\* fail for want of an author.
C10_SecondaryProviderWins ==
    (data.hasBook /\ ~data.book.author.present /\ ~NoSearchTerm
        /\ PrimaryFailsSecondarySucceeds) =>
        /\ result.status = "failed" => book.author.present
        /\ book.author.present => usedStrategy = "BookInfo.pro"

\* addBook ended in a failure of author resolution caused by failed lookups
AuthorResolutionFailed ==
    /\ result.status = "failed"
    /\ result.reason \in
        {"Failed to lookup author",
         "Author lookup failed for term: " \o searchTerm,
         "Unable to resolve author for book addition. All resolution strategies failed."}

\* no strategy after the lookups can produce an author: the book brings no
\* named author and the last strategy has nothing to synthesize one from
StrategiesExhausted ==
    /\ AuthorMissing(data.book)
    /\ ~SyntheticAuthor(data.book).author.present

\* C11: a failed author lookup is not fatal while a later strategy can still
\* produce an author; addBook ends in author-resolution failure only when
\* every strategy is exhausted.
C11_AuthorFailureOnlyWhenExhausted ==
    AuthorResolutionFailed => StrategiesExhausted

\* s ends with t
EndsWith(s, t) == Len(t) <= Len(s) /\ From(s, Len(s) - Len(t) + 1) = t

\* C12: a non-2xx answer of the add endpoint ends addBook in a failure whose
\* reason holds the upstream status code and ends with the response body,
\* unchanged; success is reported only after a 2xx answer to the add POST.
C12_AddRejectedCarriesStatusAndBody ==
    /\ (Submitted /\ ~addResponse.ok) =>
        /\ pc = "done"
        /\ result.status = "failed"
        /\ includes(result.reason, addResponse.status)
        /\ EndsWith(result.reason, addResponse.body)
    /\ result.status = "success" => Submitted /\ addResponse.ok

\* the add endpoint rejected the book with a body
C12_Witness ==
    /\ Submitted
    /\ addResponse.status = "400"
    /\ addResponse.body # ""
    /\ result.status = "failed"

\* the result {success: true, book, message} of a 2xx add answer
SuccessOutcome ==
    /\ result.status = "success"
    /\ Submitted
    /\ addResponse.ok /\ addResponse.json
    /\ result.book = addResponse.body
    /\ includes(result.message, data.book.title)
    /\ result.reason = ""

\* a thrown Error with its reason
FailureOutcome ==
    /\ result.status = "failed"
    /\ result.reason # ""
    /\ result.book = "" /\ result.message = ""

\* C13: an invocation that is over has exactly one of two outcomes: success
\* with the add endpoint's answer as book and a message naming the book's
\* title, or a failure with a reason; success is never reported without an
\* answer of the add endpoint, and nothing is reported before the end.
C13_ExactlyOneOutcome ==
    /\ pc = "done" => (SuccessOutcome \/ FailureOutcome)
    /\ ~(SuccessOutcome /\ FailureOutcome)
    /\ pc # "done" => result = NoResult

\* a titled book was added
C13_Witness ==
    /\ pc = "done"
    /\ SuccessOutcome
    /\ data.book.title # ""

\* the end-to-end scenario, with every author and edition lookup so far
\* answered by the catalogue's record
EndToEnd ==
    /\ data = BaseData
    /\ upstream = BaseUpstream
    /\ \A i \in CallsTo("author/lookup") \cup CallsTo("edition/lookup") :
            calls[i].outcome = "results"

\* C14: in the end-to-end scenario (term "Dune", book "Dune" with
\* foreignBookId "12345", author lookup answering Frank Herbert / hebert-f,
\* edition lookup answering Dune / edit-1) the payload has the author's
\* foreignAuthorId "hebert-f" and the one edition Dune / edit-1, monitored
\* and manualAdd, and the message of the result names "Dune".
C14_EndToEnd ==
    EndToEnd =>
        /\ result.status = "failed" => Submitted
        /\ addPayload.built =>
            /\ addPayload.author.foreignAuthorId = "hebert-f"
            /\ Len(addPayload.editions) = 1
            /\ addPayload.editions[1].title = "Dune"
            /\ addPayload.editions[1].foreignEditionId = "edit-1"
            /\ addPayload.editions[1].monitored
            /\ addPayload.editions[1].manualAdd
        /\ result.status = "success" => includes(result.message, "Dune")

\* \d+
DigitsOnly(s) == s # "" /\ \A i \in 1..Len(s) : Char(s, i) \in DigitChars

\* synthetic-\d+ or fallback-\d+
SyntheticForm(id) ==
    \E prefix \in {"synthetic-", "fallback-"} :
        MatchAt(id, 1, prefix) /\ DigitsOnly(From(id, Len(prefix) + 1))

\* edition lookups were issued and every one of them failed or found nothing
EveryEditionLookupFailed ==
    /\ Count("edition/lookup") >= 1
    /\ \A i \in CallsTo("edition/lookup") : calls[i].outcome = "none"

\* the input book has no ISBN, no ASIN and no foreignBookId
NoIsbnAsinBookId(b) ==
    b.isbn13 = "" /\ b.isbn10 = "" /\ b.isbn = "" /\ b.asin = "" /\ b.foreignBookId = ""

\* once edition resolution is over the add POST is issued, with a single
\* edition whose identifier is synthetic-<digits> or fallback-<digits>
SubmitsSyntheticEdition ==
    Past("ResolveEdition") =>
        /\ pc = "done" => Submitted
        /\ addPayload.built =>
            /\ Len(addPayload.editions) = 1
            /\ SyntheticForm(addPayload.editions[1].foreignEditionId)

\* C15 as stated: a book without ISBN, ASIN and foreignBookId whose edition
\* lookups all fail is submitted with one edition identified by
\* synthetic-<digits> or fallback-<digits>.
C15_SyntheticEditionWithoutIsbnAsinBookId ==
    (NoIsbnAsinBookId(data.book) /\ EveryEditionLookupFailed) => SubmitsSyntheticEdition

\* C15, amended: the same when, besides, neither the book nor the request
\* carries a foreignEditionId.
C15_SyntheticEditionWithoutIdentifier ==
    (/\ NoIsbnAsinBookId(data.book)
     /\ data.book.foreignEditionId = ""
     /\ data.foreignEditionId = ""
     /\ EveryEditionLookupFailed) => SubmitsSyntheticEdition

\* a book without identifiers was posted with a synthetic edition after its
\* edition lookups failed
C15_Witness ==
    /\ NoIsbnAsinBookId(data.book)
    /\ data.book.foreignEditionId = ""
    /\ data.foreignEditionId = ""
    /\ EveryEditionLookupFailed
    /\ Submitted
    /\ MatchAt(addPayload.editions[1].foreignEditionId, 1, "synthetic-")

\* C16: when the request names a foreignEditionId, no edition lookup is
\* issued, the book's editions are left as they came (no chosen, synthetic
\* or fallback edition), and the payload's editions are exactly one entry
\* with the caller's identifier.
C16_ExplicitEditionSkipsPasses ==
    data.foreignEditionId # "" =>
        /\ Count("edition/lookup") = 0
        /\ book.editions = data.book.editions
        /\ addPayload.built =>
            /\ Len(addPayload.editions) = 1
            /\ addPayload.editions[1].foreignEditionId = data.foreignEditionId

\* the statement positions inside a for-of loop over candidates or terms
LoopPositions ==
    {"primaryLoop", "secondaryLoop", "foreignAuthorIdLoop", "passALoop", "passBLoop"}

\* the candidate or term the running loop is at
CandidateAt(p) ==
    CASE p \in {"primaryLoop", "secondaryLoop"} -> authorCandidates[idx]
      [] p = "foreignAuthorIdLoop" -> candidateNames[idx]
      [] p = "passALoop" -> editionTerms[idx]
      [] p = "passBLoop" -> extraTerms[idx]

\* requests are in flight only while the two profile lists are awaited (or
\* after Promise.all rejected on the first of them), and never more than
\* these two
InFlightOnlyProfilePair ==
    /\ inFlight # {} => pc \in {"profilesWait", "done"}
    /\ \A f \in inFlight : f.api \in {"qualityprofile", "metadataprofile"}
    /\ \A f, g \in inFlight : f.api = g.api => f = g
    /\ pc = "done" => Cardinality(inFlight) <= 1

\* the list fetch of api was answered 2xx
AnsweredOk(api) == \A i \in CallsTo(api) : calls[i].outcome # "error"

\* what profile resolution comes to, told from the two answers alone
ProfileOutcomeByAnswers ==
    (Count("qualityprofile") = 1 /\ pc # "profilesWait") =>
        IF /\ AnsweredOk("qualityprofile") /\ AnsweredOk("metadataprofile")
           /\ upstream.qualityProfiles # <<>> /\ upstream.metadataProfiles # <<>>
        THEN /\ qpId = OrElse(data.qualityProfileId, upstream.qualityProfiles[1].id)
             /\ mpId = OrElse(data.metadataProfileId, upstream.metadataProfiles[1].id)
             /\ result.reason \notin NoProfilesAvailable
                    \cup {FetchFailedReason("qualityprofile"), FetchFailedReason("metadataprofile")}
        ELSE /\ pc = "done" /\ result.status = "failed"
             /\ qpId = Undefined /\ mpId = Undefined
             /\ Count("rootfolder") = 0 /\ Count("book") = 0
             /\ result.reason \in
                    IF AnsweredOk("qualityprofile") /\ AnsweredOk("metadataprofile")
                    THEN NoProfilesAvailable
                    ELSE {FetchFailedReason(api) :
                            api \in {a \in {"qualityprofile", "metadataprofile"} : ~AnsweredOk(a)}}

\* a step sends requests only when none is in flight: one request whose
\* answer the step awaits, or the two profile fetches together
OneRequestAtATime ==
    calls' # calls =>
        /\ inFlight = {}
        /\ \/ Len(calls') = Len(calls) + 1 /\ inFlight' = {}
           \/ /\ pc = "profiles" /\ Len(calls') = Len(calls) + 2
              /\ Cardinality(inFlight') = 2

\* an iteration of a loop looks up its own candidate, once, and the loop goes
\* on to the next candidate only when the answer gave nothing to use
SequentialLoop ==
    pc \in LoopPositions =>
        /\ Len(calls') = Len(calls) + 1
        /\ calls'[Len(calls')].term = CandidateAt(pc)
        /\ pc' = pc =>
            /\ idx' = idx + 1
            /\ book' = book /\ foreignAuthorId' = foreignAuthorId
            /\ pc \in {"secondaryLoop", "passALoop", "passBLoop"} =>
                    calls'[Len(calls')].outcome = "none"

CallerFlag(f) == f # "false"

\* C18: every payload has author.monitored false whatever the request's
\* flags, monitored and addOptions.searchForNewBook equal to the caller's
\* booleans (true when omitted), author.rootFolderPath equal to the resolved
\* root folder (the caller's, else the first one fetched), and a
\* foreignBookId exactly when the book carries one.
C18_PayloadFields ==
    addPayload.built =>
        /\ addPayload.author.monitored = FALSE
        /\ addPayload.monitored = CallerFlag(data.monitored)
        /\ addPayload.addOptions.searchForNewBook = CallerFlag(data.searchForNewBook)
        /\ addPayload.author.rootFolderPath =
                IF data.rootFolderPath # "" THEN data.rootFolderPath
                ELSE upstream.rootFolders[1].path
        /\ addPayload.author.rootFolderPath # ""
        /\ addPayload.hasForeignBookId <=> data.book.foreignBookId # ""
        /\ addPayload.hasForeignBookId => addPayload.foreignBookId = data.book.foreignBookId

\* a payload for a request with monitored false and a book without
\* foreignBookId
C18_Witness ==
    /\ addPayload.built
    /\ data.monitored = "false"
    /\ data.searchForNewBook = "undefined"
    /\ data.book.foreignBookId = ""
    /\ ~addPayload.monitored

\* the lookups of the primary-provider and of the secondary-provider loop,
\* as positions of the log
PrimaryLoopCalls == CallsTo("author/lookup") \cap CallsOf("ResolveAuthor")
SecondaryLoopCalls == CallsTo("bookinfo/author") \cap CallsOf("ResolveAuthor")

\* the lookups of a loop are for the candidates, in candidate order
InCandidateOrder(loopCalls) ==
    \A i \in loopCalls :
        LET k == Cardinality({j \in loopCalls : j <= i})
        IN k <= Len(authorCandidates) /\ calls[i].term = authorCandidates[k]

\* the statement is past both candidate loops
CandidateLoopsOver ==
    pc \notin {"start", "lookupFallback", "resolveAuthor", "primaryLoop", "secondaryLoop"}

\* C19: in the primary-provider and in the secondary-provider loop the
\* candidates are queried in candidate order, a candidate whose lookup
\* fails or finds nothing is followed by the next candidate, and the loop
\* stops at the first candidate whose result is taken.
C19_CandidateLoops ==
    /\ InCandidateOrder(PrimaryLoopCalls)
    /\ InCandidateOrder(SecondaryLoopCalls)
    /\ usedStrategy = "Readarr author lookup" =>
        /\ SecondaryLoopCalls = {}
        /\ \A i \in PrimaryLoopCalls :
                calls[i].outcome = "results" \/ \E j \in PrimaryLoopCalls : j > i
    /\ usedStrategy = "BookInfo.pro" =>
        \A i \in SecondaryLoopCalls :
            (calls[i].outcome = "results") <=> (\A j \in SecondaryLoopCalls : j <= i)
    /\ (CandidateLoopsOver /\ usedStrategy \notin {"Readarr author lookup", "BookInfo.pro"}) =>
        /\ Cardinality(PrimaryLoopCalls) = Len(authorCandidates)
        /\ Cardinality(SecondaryLoopCalls) = Len(authorCandidates)

\* the steps of the author strategy chain
StrategyChainPcs ==
    {"primaryLoop", "secondaryLoop", "bookMetadata", "synthesizeAuthor"}

\* the invocation went on after the author resolution stage
WentPastAuthorResolution ==
    /\ data.hasBook
    /\ pc \in {"profiles", "profilesWait", "rootFolder", "foreignAuthorId",
               "foreignAuthorIdLoop", "editions", "passALoop", "passASynthesize",
               "checkEditions", "passBLoop", "passBFallback", "assemble", "submit"}
       \/ (pc = "done" /\ result.status = "success")

\* an author of the request with an authorName but without a foreignAuthorId
NamedWithoutId(b) ==
    b.author.present /\ b.author.authorName # "" /\ b.author.foreignAuthorId = ""

\* the strategy chain has left no trace: no step, no lookup, no strategy
NoStrategyRan ==
    /\ pc \notin StrategyChainPcs
    /\ usedStrategy = ""
    /\ CallsOf("ResolveAuthor") = {}
    /\ authorCandidates = <<>>

LookupAndPatternStrategies ==
    {"Readarr author lookup", "BookInfo.pro", "Book metadata lookup", "Enhanced name parsing"}

\* book.title || book.foreignBookId, on the book of the request
HasTitleOrBookId(b) == b.title # "" \/ b.foreignBookId # ""

\* the author the generic fallback is said to synthesize for a book
GenericAuthorNamed(a, b) ==
    /\ a.present
    /\ a.authorName = (IF b.authorTitle # "" THEN b.authorTitle ELSE "Unknown Author")
    /\ a.foreignAuthorId # ""
    /\ a.foreignAuthorId = Slug(a.authorName)

UnableToResolveAuthor ==
    /\ result.status = "failed"
    /\ result.reason =
        "Unable to resolve author for book addition. All resolution strategies failed."

\* the strategy chain ran to its end without a lookup or a pattern giving an
\* author
\* addBook failed before the author strategies were reached
FailedBeforeStrategies ==
    /\ result.status = "failed"
    /\ result.reason \in {"lookup_author requires \"term\"", "Failed to lookup author",
                          "Author lookup failed for term: " \o searchTerm,
                          "Cannot read properties of undefined (reading 'author')"}

NoLookupOrPatternAuthor ==
    /\ data.hasBook /\ AuthorMissing(data.book)
    /\ pc \notin {"start", "lookupFallback", "resolveAuthor"} \cup StrategyChainPcs
    /\ ~FailedBeforeStrategies
    /\ usedStrategy \notin LookupAndPatternStrategies

\* C21: when no lookup and no pattern strategy yields an author, the generic
\* fallback synthesizes one (named from authorTitle or "Unknown Author", with
\* a non-empty slug as foreignAuthorId) exactly when the book has a title or
\* a foreignBookId; otherwise addBook fails with the author-resolution
\* failure, and then no profile, root-folder, edition or add call was issued.
C21_GenericFallbackOrFailure ==
    /\ NoLookupOrPatternAuthor =>
        IF HasTitleOrBookId(data.book)
        THEN /\ usedStrategy = "Generic fallback"
             /\ ~UnableToResolveAuthor
             /\ pc \in {"profiles", "profilesWait", "rootFolder", "foreignAuthorId"}
                    => GenericAuthorNamed(book.author, data.book)
             /\ Submitted =>
                    addPayload.author.foreignAuthorId = book.author.foreignAuthorId
        ELSE /\ UnableToResolveAuthor
             /\ usedStrategy = ""
             /\ \A i \in 1..Len(calls) :
                    calls[i].stage \in {"ExtractSearchTerm", "LookupAuthorCandidate",
                                        "ResolveAuthor"}
    /\ usedStrategy = "Generic fallback" =>
        NoLookupOrPatternAuthor /\ HasTitleOrBookId(data.book)
    /\ UnableToResolveAuthor =>
        NoLookupOrPatternAuthor /\ ~HasTitleOrBookId(data.book)

\* the generic fallback named the author from the authorTitle
C21_Witness ==
    /\ usedStrategy = "Generic fallback"
    /\ data.book.authorTitle # ""
    /\ book.author.authorName = data.book.authorTitle
    /\ result.status = "success"

\* the edition lookups of the log, in the order they were issued
EditionLookups == SelectSeq(calls, LAMBDA c : c.api = "edition/lookup")

\* prefix \o value, or '' when the value is absent
Prefixed(prefix, v) == IF v = "" THEN "" ELSE prefix \o v

\* "a b" when both are present, '' otherwise
Joined(a, b) == IF a = "" \/ b = "" THEN "" ELSE a \o " " \o b

\* the nine kinds of edition search term in the stated priority order, an
\* absent one as ''
TermsByPriority(b, term) ==
    <<Prefixed("goodreads:", b.foreignEditionId),
      Prefixed("goodreads:", b.foreignBookId),
      Prefixed("isbn:", b.isbn13),
      Prefixed("isbn:", Isbn10Of(b)),
      Prefixed("asin:", b.asin),
      Joined(b.title, AuthorNameOf(b)),
      Joined(AuthorNameOf(b), b.title),
      b.title,
      term>>

\* the present terms in priority order; the search term comes last and is
\* left out when an earlier term already equals it
PresentTermsByPriority(b, term) ==
    SelectSeq(SubSeq(TermsByPriority(b, term), 1, 8), LAMBDA t : t # "")
        \o (IF term # "" /\ \A k \in 1..8 : TermsByPriority(b, term)[k] # term
            THEN <<term>> ELSE <<>>)

\* Pass A is running or has just ended: every edition lookup so far is its own
InPassA == pc \in {"passALoop", "passASynthesize"} \/ (pc = "checkEditions" /\ data.book.editions = <<>>)

\* the first n lookups found nothing
AllNone(q, n) == \A k \in 1..n : q[k].outcome = "none"

\* C22: Pass A queries edition lookup with its terms in the priority order
\* foreign edition id, foreign book id, ISBN-13, ISBN-10, ASIN, "title
\* author", "author title", title, search term; a term whose lookup fails or
\* finds nothing is followed by the next term, and no term is queried after
\* the first one that returns a result.
C22_PassATermsInPriorityOrder ==
    InPassA =>
        /\ Len(EditionLookups) <= Len(PresentTermsByPriority(book, data.term))
        /\ \A k \in 1..Len(EditionLookups) :
                EditionLookups[k].term = PresentTermsByPriority(book, data.term)[k]
        /\ AllNone(EditionLookups, Len(EditionLookups) - 1)
        /\ pc = "passALoop" =>
                /\ AllNone(EditionLookups, Len(EditionLookups))
                /\ Len(EditionLookups) < Len(PresentTermsByPriority(book, data.term))
        /\ pc = "passASynthesize" =>
                /\ AllNone(EditionLookups, Len(EditionLookups))
                /\ Len(EditionLookups) = Len(PresentTermsByPriority(book, data.term))
        /\ (pc = "checkEditions" /\ foundEdition) =>
                /\ EditionLookups # <<>>
                /\ EditionLookups[Len(EditionLookups)].outcome = "results"

\* Pass A skipped terms that found nothing and stopped at one that did, with
\* the foreign edition id queried before the foreign book id
C22_Witness ==
    /\ pc = "checkEditions" /\ data.book.editions = <<>> /\ foundEdition
    /\ Len(EditionLookups) >= 3
    /\ book.foreignEditionId # "" /\ book.foreignBookId # ""
    /\ book.foreignEditionId # book.foreignBookId
    /\ EditionLookups[1].term = "goodreads:" \o book.foreignEditionId

\* Pass B is running or has run out of terms
InPassB == pc \in {"passBLoop", "passBFallback"}

\* C23: Pass B builds its search terms with the same contents and in the same
\* priority order as Pass A, so that for the same book and term both passes
\* issue their edition lookups in the same sequence.
C23_PassBTermsAsPassA ==
    InPassB => extraTerms = EditionTerms(book, data.term)

\* Pass A has just taken an edition from the list `arr` of a lookup
PassAChose == pc = "checkEditions" /\ foundEdition /\ arr # <<>>

\* the positions of a list whose title is the given title, letter case aside
SameTitleAt(list, title) ==
    {i \in 1..Len(list) : list[i].title # "" /\ toLowerCase(list[i].title) = toLowerCase(title)}

\* C24: in Pass A the edition chosen from a non-empty lookup result is the
\* first result whose title equals the book's title case-insensitively, else
\* the first result; after the choice book.editions holds exactly that one
\* edition, with monitored = true.
C24_PassAChoosesTitleMatch ==
    PassAChose =>
        /\ Len(book.editions) = 1
        /\ book.editions[1].monitored
        /\ \E i \in 1..Len(arr) :
            /\ book.editions[1] = [arr[i] EXCEPT !.monitored = TRUE]
            /\ IF SameTitleAt(arr, book.title) # {}
               THEN i \in SameTitleAt(arr, book.title)
                    /\ \A j \in SameTitleAt(arr, book.title) : i <= j
               ELSE i = 1

\* a later result with the book's title was chosen over the first result
C24_Witness ==
    /\ PassAChose
    /\ Len(arr) >= 2
    /\ toLowerCase(arr[1].title) # toLowerCase(book.title)
    /\ book.editions[1].title # ""
    /\ toLowerCase(book.editions[1].title) = toLowerCase(book.title)

\* Pass A is over and none of its lookups gave an edition
PassAFoundNothing ==
    pc = "checkEditions" /\ data.book.editions = <<>> /\ ~foundEdition

\* the identifiers a book may carry of its own
BookIdentifiers(b) ==
    {b.foreignEditionId, b.foreignBookId, b.isbn13, b.isbn10, b.isbn, b.asin} \ {""}

\* C25: whenever every term lookup of Pass A fails or finds nothing, an
\* edition is synthesized from the book's fields, identified by one of the
\* book's identifiers or else by synthetic-<timestamp>; this holds for every
\* book that reaches Pass A, one without a title included.
C25_PassASynthesizesEdition ==
    PassAFoundNothing =>
        /\ Len(book.editions) = 1
        /\ book.editions[1].title = book.title
        /\ \/ book.editions[1].foreignEditionId \in BookIdentifiers(book)
           \/ /\ BookIdentifiers(book) = {}
              /\ SyntheticForm(book.editions[1].foreignEditionId)

\* Pass B has just taken an edition from the list `arr` of a lookup
PassBChose == pc = "assemble" /\ arr # <<>>

\* the positions of a list whose edition carries an identifier Pass B looks for
IdentifiedAt(list) == {i \in 1..Len(list) : HasLookupIdentifier(list[i])}

\* the editions of a book are one edition made of the book's own fields,
\* identified by one of the book's identifiers or else by fallback-<timestamp>
IsFallbackEdition(b) ==
    /\ Len(b.editions) = 1
    /\ b.editions[1].title = b.title
    /\ b.editions[1].manualAdd
    /\ \/ b.editions[1].foreignEditionId \in BookIdentifiers(b)
       \/ /\ BookIdentifiers(b) = {}
          /\ SyntheticForm(b.editions[1].foreignEditionId)

\* from a non-empty result the first edition that carries an identifier is
\* taken; when the edition taken has no identifier the edition transform
\* accepts, the fallback edition replaces it
PassBTakesIdentifiedOrFallback ==
    PassBChose =>
        /\ IdentifiedAt(arr) # {} =>
            \E i \in IdentifiedAt(arr) :
                /\ \A j \in IdentifiedAt(arr) : i <= j
                /\ book.editions = <<[arr[i] EXCEPT !.monitored = TRUE]>>
        /\ \/ IsFallbackEdition(book)
           \/ Len(book.editions) = 1 /\ TransformId(book.editions[1]) # ""

\* lookups that all failed or found nothing leave the fallback edition
PassBExhaustedFallsBack == pc = "passBFallback" => IsFallbackEdition(book')

\* C26: in Pass B the first result carrying a recognizable identifier is
\* chosen over the plain first result; and whenever Pass B ends without an
\* edition carrying a valid identifier (lookups failed, found nothing, or
\* returned only results without an identifier) the editions become one
\* synthetic edition identified by the first available book identifier or
\* else by fallback-<timestamp>.
C26_PassBIdentifiedOrFallback ==
    [](PassBTakesIdentifiedOrFallback) /\ [][PassBExhaustedFallsBack]_vars

\* the values of the identifier fields of an edition that the edition
\* transform reads
IdentifierFields(e) ==
    <<e.foreignEditionId, e.goodreadsEditionId, e.goodreadsId, e.foreignId, e.foreign_id,
      e.editionId, e.id>>

\* the positions of the editions that have a value in some identifier field
WithIdentifier(es) ==
    {i \in 1..Len(es) : \E k \in 1..7 : IdentifierFields(es[i])[k] # ""}

\* the k-th smallest member of a set of positions
RECURSIVE Nth(_, _)
Nth(S, k) == IF k = 1 THEN First(S) ELSE Nth(S \ {First(S)}, k - 1)

\* the payload's editions are the book's editions that have an identifier,
\* in the order of the book
KeepsIdentifiedInOrder ==
    /\ Len(addPayload.editions) = Cardinality(WithIdentifier(book.editions))
    /\ \A k \in 1..Len(addPayload.editions) :
        \E e \in {book.editions[Nth(WithIdentifier(book.editions), k)]} :
            /\ addPayload.editions[k].foreignEditionId \in
                    {IdentifierFields(e)[j] : j \in 1..7} \ {""}
            /\ addPayload.editions[k].title = (IF e.title # "" THEN e.title ELSE book.title)

\* the request names no edition and its book brings the two candidates
\* [{title:"X", foreignEditionId:""}, {title:"Y", foreignEditionId:"123"}]
TwoCandidates ==
    /\ data.foreignEditionId = ""
    /\ data.hasBook
    /\ data.book.editions =
        <<[NoEdition EXCEPT !.title = "X"],
          [NoEdition EXCEPT !.title = "Y", !.foreignEditionId = "123"]>>

\* C27: the edition transform keeps exactly the editions whose identifier is
\* non-empty, in input order; of the candidates [{title:"X",
\* foreignEditionId:""}, {title:"Y", foreignEditionId:"123"}] only the second
\* is in the submitted payload, and no lookup or synthesis replaces the list.
C27_TransformKeepsIdentified ==
    /\ (addPayload.built /\ data.foreignEditionId = "" /\ WithIdentifier(book.editions) # {})
        => KeepsIdentifiedInOrder
    /\ TwoCandidates =>
        /\ book.editions = data.book.editions
        /\ CallsTo("edition/lookup") = {}
        /\ addPayload.built =>
            /\ Len(addPayload.editions) = 1
            /\ addPayload.editions[1].title = "Y"
            /\ addPayload.editions[1].foreignEditionId = "123"

\* the two candidates were submitted
C27_Witness ==
    /\ TwoCandidates
    /\ Submitted
    /\ Len(addPayload.editions) = 1

\* the first non-empty value among the identifier fields, in the order
\* foreignEditionId, goodreadsEditionId, goodreadsId, foreignId, foreign_id,
\* editionId, id
FirstIdentifier(e) ==
    IF \A k \in 1..7 : IdentifierFields(e)[k] = "" THEN ""
    ELSE IdentifierFields(e)[First({k \in 1..7 : IdentifierFields(e)[k] # ""})]

\* every payload edition is identified by the first identifier of the book's
\* edition it was made from
TransformTakesFirstIdentifier ==
    /\ Len(addPayload.editions) = Cardinality(WithIdentifier(book.editions))
    /\ \A k \in 1..Len(addPayload.editions) :
        addPayload.editions[k].foreignEditionId =
            FirstIdentifier(book.editions[Nth(WithIdentifier(book.editions), k)])

\* C28: the transform identifies each edition by the first non-empty value
\* among foreignEditionId, goodreadsEditionId, goodreadsId, foreignId,
\* foreign_id, editionId, id; an edition with a value in any of these fields
\* is accepted by the transform and is never replaced by Pass B's lookup or
\* fallback.
C28_AcceptedEditionsNeverReplaced ==
    /\ (addPayload.built /\ data.foreignEditionId = "" /\ WithIdentifier(book.editions) # {})
        => TransformTakesFirstIdentifier
    /\ (data.hasBook /\ WithIdentifier(data.book.editions) # {}) =>
        /\ book.editions = data.book.editions
        /\ extraTerms = <<>>
        /\ pc \notin {"passBLoop", "passBFallback"}

\* pickBestAuthorMatch has been applied to authorResults and a candidate
Picked == pc = "picked"

\* the name of a result as it is compared: lower case, punctuation as blanks
ComparedName(r) == norm(NameOf(r))

\* the positions of the named results whose name equals the candidate
EqualTo(results, candidate) ==
    {i \in 1..Len(results) :
        ComparedName(results[i]) # "" /\ ComparedName(results[i]) = norm(candidate)}

\* the positions of the named results whose name contains the candidate or
\* is contained in it
ContainingOrContained(results, candidate) ==
    {i \in 1..Len(results) :
        /\ ComparedName(results[i]) # ""
        /\ \/ includes(ComparedName(results[i]), norm(candidate))
           \/ includes(norm(candidate), ComparedName(results[i]))}

\* C29: pickBestAuthorMatch, comparing names case-insensitively and without
\* punctuation, returns the first result whose name equals the candidate if
\* there is one, even when an earlier result contains the candidate;
\* otherwise the first result whose name contains the candidate or is
\* contained in it; otherwise the first result of the list.
C29_PickBestAuthorMatch ==
    Picked =>
        \E cand \in {authorCandidates[idx]} :
            IF EqualTo(authorResults, cand) # {}
            THEN book.author = authorResults[First(EqualTo(authorResults, cand))]
            ELSE IF ContainingOrContained(authorResults, cand) # {}
                 THEN book.author =
                        authorResults[First(ContainingOrContained(authorResults, cand))]
                 ELSE book.author = authorResults[1]

\* a result equal to the candidate but for case was picked although an
\* earlier result contains the candidate
C29_Witness ==
    /\ Picked
    /\ Len(authorResults) >= 2
    /\ 1 \in ContainingOrContained(authorResults, authorCandidates[idx])
    /\ 1 \notin EqualTo(authorResults, authorCandidates[idx])
    /\ book.author = authorResults[2]
    /\ NameOf(book.author) # authorCandidates[idx]

\* candidate extraction has run on the book and the term
Extracted == pc \in {"pick", "picked", "done"}

\* the series-form texts given as the book's title, authorTitle or the term
FormsGiven ==
    {f \in SeriesForms : f.text \in {book.title, book.authorTitle, data.term}}

\* C30: for every input of the form "Title by Author Name (Series #3)"
\* given to name cleanup and candidate extraction the result is "Author
\* Name": the title, the word "by", the parenthetical and the series marker
\* are all stripped.
C30_SeriesFormYieldsAuthorName ==
    Extracted =>
        \A f \in FormsGiven :
            /\ authorCandidates = <<f.author>>
            /\ cleanupAuthorName(f.text, f.title) = f.author

(***************************************************************************)
(* C31                                                                     *)
(***************************************************************************)
\* the comma form the book's authorTitle is, if it is one
CommaFormGiven == {f \in CommaForms : book.authorTitle = f.text}

Flipped(f) == f.first \o " " \o f.last

Occurrences(q, v) == Cardinality({i \in 1..Len(q) : q[i] = v})

\* C31: for every comma-form author string "Last, First", cleanupAuthorName
\* yields "First Last", and extractAuthorNameCandidates returns that flipped
\* name exactly once and returns no candidate shorter than 3 characters.
C31_CommaFormFlippedOnce ==
    Extracted =>
        /\ \A f \in CommaFormGiven :
            /\ cleanupAuthorName(f.text, book.title) = Flipped(f)
            /\ Occurrences(authorCandidates, Flipped(f)) = 1
        /\ \A i \in 1..Len(authorCandidates) : Len(authorCandidates[i]) >= MinCandidateLen

\* the comma form " Austen ,  Jane " beside a title that names the two-letter
\* author "Al": the one candidate is the flipped name
C31_Witness ==
    /\ Extracted
    /\ book.authorTitle = " Austen ,  Jane "
    /\ book.title = "Up by Al"
    /\ authorCandidates = <<"Jane Austen">>

(***************************************************************************)
(* C32                                                                     *)
(***************************************************************************)
NoValidEdition ==
    /\ result.status = "failed"
    /\ MatchAt(result.reason, 1, "Unable to create valid edition")

\* neither the explicit edition, nor the transform, nor the book's
\* identifiers gave the payload an edition
OnlySynthesisLeft ==
    /\ data.foreignEditionId = ""
    /\ TransformEditions(book.editions, book) = <<>>
    /\ PossibleIds(book) = <<>>

\* C32: no invocation ends with the 'Unable to create valid edition' error:
\* a payload always holds at least one edition, and when the transform and the
\* identifier fallbacks leave nothing, the final synthesis makes it hold
\* exactly one, identified by the synthetic id.
C32_NoValidEditionUnreachable ==
    /\ ~NoValidEdition
    /\ pc = "submit" => addPayload.built
    /\ addPayload.built =>
        /\ Len(addPayload.editions) >= 1
        /\ OnlySynthesisLeft =>
            /\ Len(addPayload.editions) = 1
            /\ \E now \in Clock :
                  addPayload.editions[1].foreignEditionId = SyntheticId(book, now)

\* a payload whose one edition the final synthesis made from the title
C32_Witness ==
    /\ addPayload.built
    /\ OnlySynthesisLeft
    /\ MatchAt(addPayload.editions[1].foreignEditionId, 1, "syn-")

(***************************************************************************)
(* C33                                                                     *)
(***************************************************************************)
\* the foreign identifier the book's author came with
OwnForeignId ==
    FirstTruthy(<<data.book.author.foreignAuthorId, data.book.author.foreignId,
                  data.book.author.foreign_id>>)

\* the book came with a named author that has a foreign identifier of its own
OwnAuthorComplete ==
    /\ data.hasBook
    /\ ~AuthorMissing(data.book)
    /\ OwnForeignId # ""

\* the primary provider answered an empty list and the secondary nothing
BothLookupsEmpty ==
    /\ Len(calls) >= 2
    /\ calls[1].api = "author/lookup" /\ calls[1].outcome = "empty"
    /\ calls[2].api = "bookinfo/author" /\ calls[2].outcome = "none"

AuthorLookupFailed ==
    /\ pc = "done"
    /\ result.status = "failed"
    /\ result.reason = "Author lookup failed for term: " \o searchTerm

C33_WitnessBothEmpty ==
    /\ OwnAuthorComplete
    /\ BothLookupsEmpty
    /\ AuthorLookupFailed

(***************************************************************************)
(* C34                                                                     *)
(***************************************************************************)
TermWithoutBook == data.term # "" /\ ~data.hasBook

InitialLookupSucceeded == pc \notin {"start", "lookupFallback"} /\ authorData # NoAuthor

\* C34: a request with a term and no book object never reaches the add
\* submission: once the initial author lookup has succeeded the invocation is
\* over as a failure, and no profile, root-folder, edition or add call was
\* issued and no payload built.
C34_NoBookNeverSubmits ==
    TermWithoutBook =>
        /\ \A i \in 1..Len(calls) : calls[i].api \in {"author/lookup", "bookinfo/author"}
        /\ Len(calls) <= 2
        /\ ~addPayload.built
        /\ result.status # "success"
        /\ (InitialLookupSucceeded /\ pc # "resolveAuthor") =>
              pc = "done" /\ result.status = "failed"

\* the initial lookup found an author and the invocation failed right after
C34_Witness ==
    /\ TermWithoutBook
    /\ InitialLookupSucceeded
    /\ pc = "done"
    /\ result.status = "failed"
    /\ Len(calls) = 1

(***************************************************************************)
(* C35                                                                     *)
(***************************************************************************)
\* the list the loop at statement p runs over
LoopList(p) ==
    CASE p \in {"primaryLoop", "secondaryLoop"} -> authorCandidates
      [] p = "foreignAuthorIdLoop" -> candidateNames
      [] p = "passALoop" -> editionTerms
      [] p = "passBLoop" -> extraTerms

\* no loop issues more lookups than its list has entries
LoopsBoundedByLists ==
    /\ Cardinality(PrimaryLoopCalls) <= Len(authorCandidates)
    /\ Cardinality(SecondaryLoopCalls) <= Len(authorCandidates)
    /\ Cardinality(CallsOf("ResolveForeignAuthorId")) <= Len(candidateNames)
    /\ Len(EditionLookups) <= Len(editionTerms) + Len(extraTerms)
    /\ pc \in LoopPositions => idx \in 1..Len(LoopList(pc))

\* seven calls lie outside the loops: two initial lookups, the book metadata
\* lookup, two profile lists, the root folders, the add
CallsBounded ==
    Len(calls) <= 7 + 2 * Len(authorCandidates) + Len(candidateNames)
                    + Len(editionTerms) + Len(extraTerms)

Services == {"radarr", "sonarr", "readarr", "overseerr"}

Item(fid, title, id) == [present |-> TRUE, foreignId |-> Num(fid), title |-> title, id |-> id]

\* movies the Radarr endpoints answer with: tmdbId, title, library id
MoviePool ==
    {Item(603, "The Matrix", Num(11)), Item(604, "The Matrix Reloaded", Num(12)),
     Item(603, "", Num(13))}

\* series the Sonarr endpoints answer with: tvdbId, title, library id (absent for one)
SeriesPool ==
    {Item(121361, "Game of Thrones", Num(21)), Item(81189, "Breaking Bad", Num(22)),
     Item(121361, "Thrones", Undefined)}

\* answers of a lookup endpoint: a non-2xx answer, or a list (Radarr: the
\* first entry, an empty list standing for null)
LookupResponses(pool) ==
    {[ok |-> FALSE, items |-> <<>>]} \cup {[ok |-> TRUE, items |-> r] : r \in SeqsUpTo(pool, 1)}

\* answers of an add endpoint: a non-2xx answer, one object, or an array
MediaAddResponses(pool) ==
    {[ok |-> FALSE, isArray |-> FALSE, items |-> <<>>]}
        \cup {[ok |-> TRUE, isArray |-> FALSE, items |-> <<m>>] : m \in pool}
        \cup {[ok |-> TRUE, isArray |-> TRUE, items |-> r] : r \in SeqsUpTo(pool, MaxResults)}

\* `${v}`
Text(v) ==
    IF v.t = "string" THEN v.s
    ELSE IF v.t = "number" THEN ToString(v.n)
    ELSE IF v.t = "NaN" THEN "NaN" ELSE "undefined"

\* a === b
StrictEquals(a, b) == a.t # "NaN" /\ a = b

\* the data of a Radarr or Sonarr add request; id is tmdbId or tvdbId
MediaData(id, q, r, s) ==
    [id |-> id, qualityProfileId |-> q, rootFolderPath |-> r, searchOnAdd |-> s]

GoodMovieData == MediaData(Num(603), Num(1), "/movies", "undefined")
GoodSeriesData == MediaData(Num(121361), Num(1), "/tv", "undefined")

\* JSON.parse(event.body) of a well-formed request
Body(service, action, hasData, d) ==
    [kind |-> "object", service |-> service, action |-> action, hasData |-> hasData, data |-> d]

\* a body that is not JSON, and the JSON text null
OtherBody(kind) ==
    [kind |-> kind, service |-> "", action |-> "", hasData |-> FALSE, data |-> GoodMovieData]

FullEnv == [s \in Services |-> [url |-> TRUE, key |-> TRUE]]

ListActions ==
    [radarr |-> {"get_movies", "get_quality_profiles", "get_root_folders"},
     sonarr |-> {"get_series", "get_quality_profiles", "get_root_folders"},
     readarr |-> {"get_books", "get_authors", "get_quality_profiles", "get_metadata_profiles",
                 "get_root_folders", "lookup_book", "lookup_author", "lookup_edition"},
     overseerr |-> {"request_movie", "request_series"}]

\* requests to addBookToReadarr that are sent through the handler
HandlerScenarios ==
    {sc \in Scenarios :
        \/ ~sc.data.hasBook
        \/ sc.upstream = BaseUpstream /\ sc.data = BaseData
        \* a book without author and without editions
        \/ sc.upstream = EditionUpstream /\ sc.data.book.author = NoAuthor
        \* no profile ids and no root folder in the request
        \/ /\ sc.upstream = BaseUpstream
           /\ sc.data.qualityProfileId = Undefined /\ sc.data.metadataProfileId = Undefined
           /\ sc.data.rootFolderPath = ""
        \* an author without identifier
        \/ /\ sc.upstream = AuthorUpstream
           /\ sc.data.book.author = Author("Frank Herbert", "", "")
           /\ sc.data.book.authorTitle = ""}

HandlerInputs ==
    \* methods other than POST
    {[event |-> [httpMethod |-> m, body |-> b], env |-> FullEnv,
      scenario |-> [data |-> BaseData, upstream |-> BaseUpstream]] :
        m \in {"OPTIONS", "GET", "PUT", "DELETE"},
        b \in {OtherBody("invalid"), Body("radarr", "add_movie", TRUE, GoodMovieData)}}
    \* bodies that are not a JSON object
    \cup
    {[event |-> [httpMethod |-> "POST", body |-> OtherBody(k)], env |-> FullEnv,
      scenario |-> [data |-> BaseData, upstream |-> BaseUpstream]] : k \in {"invalid", "null"}}
    \* service, action and the settings of the service vary
    \cup
    {[event |-> [httpMethod |-> "POST",
                 body |-> Body(s, a, TRUE, IF s = "sonarr" THEN GoodSeriesData ELSE GoodMovieData)],
      env |-> [FullEnv EXCEPT ![IF s \in Services THEN s ELSE "radarr"] = e],
      scenario |-> [data |-> BaseData, upstream |-> BaseUpstream]] :
        s \in Services \cup {"", "plex"},
        a \in {"", "bogus", "add_movie", "add_series", "add_book", "get_quality_profiles",
               "get_movies", "get_series", "get_books", "request_movie"},
        e \in [url : BOOLEAN, key : BOOLEAN]}
    \* the data of a Radarr or Sonarr add request varies
    \cup
    {[event |-> [httpMethod |-> "POST",
                 body |-> Body(sa[1], sa[2], TRUE,
                               MediaData(IF sa[1] = "sonarr" /\ id = Num(603) THEN Num(121361)
                                         ELSE IF sa[1] = "sonarr" /\ id = Str("603")
                                              THEN Str("121361") ELSE id,
                                         q, r, so))],
      env |-> FullEnv, scenario |-> [data |-> BaseData, upstream |-> BaseUpstream]] :
        sa \in {<<"radarr", "add_movie">>, <<"sonarr", "add_series">>},
        id \in {Undefined, Num(0), Num(603), Str("603"), Num(7), Str("abc")},
        q \in {Undefined, Num(1)}, r \in {"", "/media"},
        so \in {"undefined", "true", "false"}}
    \* requests without data
    \cup
    {[event |-> [httpMethod |-> "POST", body |-> Body(sa[1], sa[2], FALSE, GoodMovieData)],
      env |-> FullEnv, scenario |-> [data |-> BaseData, upstream |-> BaseUpstream]] :
        sa \in {<<"radarr", "add_movie">>, <<"sonarr", "add_series">>,
                <<"overseerr", "request_movie">>, <<"radarr", "get_movies">>}}
    \* Readarr requests
    \cup
    {[event |-> [httpMethod |-> "POST", body |-> Body("readarr", a, TRUE, GoodMovieData)],
      env |-> FullEnv, scenario |-> sc] :
        a \in {"add_book", "lookup_book"}, sc \in HandlerScenarios}

HandlerInit ==
    /\ \E inp \in HandlerInputs :
        /\ event = inp.event
        /\ env = inp.env
        /\ data = inp.scenario.data
        /\ upstream = inp.scenario.upstream
        /\ book = inp.scenario.data.book
    /\ authorResults = <<>>
    /\ media = NoMedia
    /\ response = NoResponse
    /\ pc = "handler"
    /\ Fresh

\* locals of addBookToReadarr
readarrVars ==
    <<book, authorVars, idx, profileVars, authorIdVars, editionVars, addPayload, addResponse>>
requestVars == <<data, upstream, authorResults, event, env>>

CorsHeaders ==
    {<<"Access-Control-Allow-Origin", "*">>, <<"Access-Control-Allow-Headers", "Content-Type">>,
     <<"Access-Control-Allow-Methods", "POST, OPTIONS">>}

JsonHeaders ==
    {<<"Content-Type", "application/json">>, <<"Access-Control-Allow-Origin", "*">>}

MethodNotAllowed ==
    [statusCode |-> 405, headers |-> CorsHeaders \cup {<<"Content-Type", "application/json">>},
     body |-> [empty |-> FALSE, success |-> "absent", error |-> "Method not allowed",
               hasData |-> FALSE]]

Preflight ==
    [statusCode |-> 200, headers |-> CorsHeaders,
     body |-> [empty |-> TRUE, success |-> "absent", error |-> "", hasData |-> FALSE]]

\* the two tests on event.httpMethod, in the order of the source
CheckMethod ==
    /\ pc = "handler"
    /\ IF event.httpMethod # "POST"
       THEN response' = MethodNotAllowed /\ pc' = "responded"
       ELSE IF event.httpMethod = "OPTIONS"
            THEN response' = Preflight /\ pc' = "responded"
            ELSE response' = response /\ pc' = "parse"
    /\ UNCHANGED <<requestVars, readarrVars, media, calls, result>>

\* `${service}` of a service that may be undefined
ServiceText(s) == IF s = "" THEN "undefined" ELSE s

\* JSON.parse, the destructuring of the parsed body, and the switch on service
ParseBody ==
    /\ pc = "parse"
    /\ IF event.body.kind = "invalid"
       THEN Throw("Invalid JSON in request body")
       ELSE IF event.body.kind = "null"
            THEN Throw("Cannot destructure property 'service' of 'parsedBody' as it is null.")
            ELSE IF event.body.service \in Services
                 THEN pc' = event.body.service /\ UNCHANGED result
                 ELSE Throw("Unknown service: " \o ServiceText(event.body.service))
    /\ UNCHANGED <<requestVars, readarrVars, media, calls, response>>

ConfigMissing_Never(s) == FALSE

\* !baseUrl || !apiKey
ConfigMissing(s) == ~env[s].url \/ ~env[s].key

\* the message of the Radarr and Readarr handlers names what is missing
MissingText(prefix, s) ==
    (IF ~env[s].url THEN prefix \o "_URL" ELSE "")
        \o (IF ~env[s].key THEN " " \o prefix \o "_API_KEY" ELSE "")

handleRadarrRequest ==
    /\ pc = "radarr"
    /\ IF ConfigMissing("radarr")
       THEN Throw("Radarr configuration missing: " \o MissingText("RADARR", "radarr"))
       ELSE IF event.body.action = "add_movie"
            THEN pc' = "addMovie" /\ UNCHANGED result
            ELSE IF event.body.action \in ListActions.radarr
                 THEN pc' = "fetch" /\ UNCHANGED result
                 ELSE Throw("Unknown Radarr action: " \o ServiceText(event.body.action))
    /\ UNCHANGED <<requestVars, readarrVars, media, calls, response>>

handleSonarrRequest ==
    /\ pc = "sonarr"
    /\ IF ConfigMissing("sonarr")
       THEN Throw("Sonarr configuration missing")
       ELSE IF event.body.action = "add_series"
            THEN pc' = "addSeries" /\ UNCHANGED result
            ELSE IF event.body.action \in ListActions.sonarr
                 THEN pc' = "fetch" /\ UNCHANGED result
                 ELSE Throw("Unknown Sonarr action: " \o ServiceText(event.body.action))
    /\ UNCHANGED <<requestVars, readarrVars, media, calls, response>>

\* add_book enters addBookToReadarr; the lookup helpers test data.term before
\* the fetch.  add_author and the BookInfo lookups are not among the requests.
handleReadarrRequest ==
    /\ pc = "readarr"
    /\ IF ConfigMissing("readarr")
       THEN Throw("Readarr configuration missing: " \o MissingText("READARR", "readarr"))
       ELSE IF event.body.action = "add_book"
            THEN pc' = "start" /\ UNCHANGED result
            ELSE IF event.body.action \in {"lookup_book", "lookup_author", "lookup_edition"}
                        /\ data.term = ""
                 THEN Throw(event.body.action \o " requires \"term\"")
                 ELSE IF event.body.action \in ListActions.readarr
                      THEN pc' = "fetch" /\ UNCHANGED result
                      ELSE Throw("Unknown Readarr action: " \o ServiceText(event.body.action))
    /\ UNCHANGED <<requestVars, readarrVars, media, calls, response>>

\* the request helpers destructure data before the fetch
handleOverseerrRequest ==
    /\ pc = "overseerr"
    /\ IF ConfigMissing("overseerr")
       THEN Throw("Overseerr configuration missing")
       ELSE IF event.body.action \in ListActions.overseerr
            THEN IF event.body.hasData
                 THEN pc' = "fetch" /\ UNCHANGED result
                 ELSE Throw("Cannot destructure property of 'data' as it is undefined.")
            ELSE Throw("Unknown Overseerr action: " \o ServiceText(event.body.action))
    /\ UNCHANGED <<requestVars, readarrVars, media, calls, response>>

Returned(message) ==
    /\ result' = [status |-> "success", reason |-> "", book |-> "", message |-> message]
    /\ pc' = "done"

\* the helpers that issue one request and return its JSON
Fetch ==
    /\ pc = "fetch"
    /\ \E ok \in BOOLEAN :
        /\ calls' = Append(calls, Call(event.body.service, event.body.action, "fetch",
                                       IF ok THEN "results" ELSE "error"))
        /\ IF ok THEN Returned("") ELSE Throw("Failed to " \o event.body.action)
    /\ UNCHANGED <<requestVars, readarrVars, media, response>>

\* !id || !qualityProfileId || !rootFolderPath
RequiredMissing(d) == ~Truthy(d.id) \/ ~Truthy(d.qualityProfileId) \/ d.rootFolderPath = ""

FindAdded_First(items, id) == IF items = <<>> THEN NoItem ELSE items[1]

\* radarrResponse.find(movie => movie.tmdbId === parseInt(tmdbId)), and the
\* same search of the Sonarr response
FindAdded(items, id) ==
    LET hits == {i \in 1..Len(items) : StrictEquals(items[i].foreignId, parseInt(id))}
    IN IF hits = {} THEN NoItem ELSE items[First(hits)]

\* the entry taken from a 2xx add response
AddedItem(resp, id) == IF resp.isArray THEN FindAdded(resp.items, id) ELSE resp.items[1]

\* title || fallback title || 'Unknown ...' (the pools carry no fallback title)
TitleOf(item, unknown) == IF item.title # "" THEN item.title ELSE unknown

AddedMessage(item, unknown, app, flag) ==
    "Successfully added \"" \o TitleOf(item, unknown) \o "\" to " \o app
        \o (IF FlagOrTrue(flag) THEN " and triggered search" ELSE "")

\* addMovieToRadarr up to the lookup
MovieLookup ==
    /\ pc = "addMovie"
    /\ LET d == event.body.data IN
       IF ~event.body.hasData
       THEN Throw("Cannot destructure property 'tmdbId' of 'data' as it is undefined.")
                /\ UNCHANGED <<calls, media>>
       ELSE IF RequiredMissing(d)
            THEN Throw("Missing required fields - tmdbId: " \o Text(d.id))
                    /\ UNCHANGED <<calls, media>>
            ELSE \E resp \in LookupResponses(MoviePool) :
                    /\ calls' = Append(calls, Call("radarr/movie/lookup/tmdb", Text(d.id), "lookup",
                                                   Outcome([ok |-> resp.ok, results |-> resp.items])))
                    /\ IF ~resp.ok
                       THEN Throw("Movie lookup failed") /\ UNCHANGED media
                       ELSE IF resp.items = <<>>
                            THEN Throw("Movie not found in TMDB: " \o Text(d.id)) /\ UNCHANGED media
                            ELSE /\ media' = [media EXCEPT !.details = resp.items[1]]
                                 /\ pc' = "movieAdd"
                                 /\ UNCHANGED result
    /\ UNCHANGED <<requestVars, readarrVars, response>>

\* addMovieToRadarr from the add request on
MovieAdd ==
    /\ pc = "movieAdd"
    /\ LET d == event.body.data IN
       \E resp \in MediaAddResponses(MoviePool) :
        /\ calls' = Append(calls, Call("radarr/movie", Text(parseInt(d.id)), "add",
                                       IF resp.ok THEN "results" ELSE "error"))
        /\ IF ~resp.ok
           THEN Throw("Failed to add movie") /\ media' = [media EXCEPT !.answer = resp]
           ELSE LET added == AddedItem(resp, d.id) IN
                /\ media' = [media EXCEPT !.answer = resp, !.added = added]
                /\ IF ~added.present
                   THEN Throw("Movie with TMDB ID " \o Text(d.id)
                                \o " was not found in Radarr library after addition attempt")
                   ELSE Returned(AddedMessage(added, "Unknown Movie", "Radarr", d.searchOnAdd))
    /\ UNCHANGED <<requestVars, readarrVars, response>>

\* addSeriesToSonarr up to the lookup
SeriesLookup ==
    /\ pc = "addSeries"
    /\ LET d == event.body.data IN
       IF ~event.body.hasData
       THEN Throw("Cannot destructure property 'tvdbId' of 'data' as it is undefined.")
                /\ UNCHANGED <<calls, media>>
       ELSE IF RequiredMissing(d)
            THEN Throw("Missing required fields: tvdbId, qualityProfileId, rootFolderPath")
                    /\ UNCHANGED <<calls, media>>
            ELSE \E resp \in LookupResponses(SeriesPool) :
                    /\ calls' = Append(calls, Call("sonarr/series/lookup", "tvdb:" \o Text(d.id),
                                                   "lookup",
                                                   Outcome([ok |-> resp.ok, results |-> resp.items])))
                    /\ IF ~resp.ok
                       THEN Throw("Series lookup failed") /\ UNCHANGED media
                       ELSE IF resp.items = <<>>
                            THEN Throw("Series not found in TVDB: " \o Text(d.id))
                                    /\ UNCHANGED media
                            ELSE /\ media' = [media EXCEPT !.details = resp.items[1]]
                                 /\ pc' = "seriesAdd"
                                 /\ UNCHANGED result
    /\ UNCHANGED <<requestVars, readarrVars, response>>

SearchWanted_Always(flag, added) == TRUE

\* searchOnAdd && addedSeries.id
SearchWanted(flag, added) == FlagOrTrue(flag) /\ Truthy(added.id)

\* addSeriesToSonarr from the add request to the test on searchOnAdd
SeriesAdd ==
    /\ pc = "seriesAdd"
    /\ LET d == event.body.data IN
       \E resp \in MediaAddResponses(SeriesPool) :
        /\ calls' = Append(calls, Call("sonarr/series", Text(parseInt(d.id)), "add",
                                       IF resp.ok THEN "results" ELSE "error"))
        /\ IF ~resp.ok
           THEN Throw("Failed to add series") /\ media' = [media EXCEPT !.answer = resp]
           ELSE LET added == AddedItem(resp, d.id) IN
                /\ media' = [media EXCEPT !.answer = resp, !.added = added]
                /\ IF ~added.present
                   THEN Throw("Series with TVDB ID " \o Text(d.id)
                                \o " was not found in Sonarr library after addition attempt")
                   ELSE IF SearchWanted(d.searchOnAdd, added)
                        THEN pc' = "seriesSearch" /\ UNCHANGED result
                        ELSE Returned(AddedMessage(added, "Unknown Series", "Sonarr",
                                                   d.searchOnAdd))
    /\ UNCHANGED <<requestVars, readarrVars, response>>

\* the SeriesSearch command; a non-2xx answer and a rejected fetch both end in
\* the catch block, which throws again
SeriesSearch ==
    /\ pc = "seriesSearch"
    /\ \E ok \in BOOLEAN :
        /\ calls' = Append(calls, Call("sonarr/command", Text(media.added.id), "search",
                                       IF ok THEN "results" ELSE "error"))
        /\ IF ok
           THEN Returned(AddedMessage(media.added, "Unknown Series", "Sonarr",
                                      event.body.data.searchOnAdd))
           ELSE Throw("Series was added, but search could not be triggered: "
                        \o "Series was added, but search could not be triggered")
    /\ UNCHANGED <<requestVars, readarrVars, media, response>>

Succeeded(r) ==
    [statusCode |-> 200, headers |-> JsonHeaders,
     body |-> [empty |-> FALSE, success |-> "true", error |-> "", hasData |-> TRUE]]

Failed(r) ==
    [statusCode |-> 500, headers |-> JsonHeaders,
     body |-> [empty |-> FALSE, success |-> "false", error |-> r.reason, hasData |-> FALSE]]

\* the return after the switch, and the catch block of the handler
Respond ==
    /\ pc = "done"
    /\ response' = IF result.status = "success" THEN Succeeded(result) ELSE Failed(result)
    /\ pc' = "responded"
    /\ UNCHANGED <<requestVars, readarrVars, media, calls, result>>

HandlerNext ==
    \/ CheckMethod
    \/ ParseBody
    \/ handleRadarrRequest
    \/ MovieLookup
    \/ MovieAdd
    \/ handleSonarrRequest
    \/ SeriesLookup
    \/ SeriesAdd
    \/ SeriesSearch
    \/ handleReadarrRequest
    \/ handleOverseerrRequest
    \/ Fetch
    \/ Next
    \/ Respond

HandlerSpec == HandlerInit /\ [][HandlerNext]_vars

(***************************************************************************)
(* C36                                                                     *)
(***************************************************************************)
Responded == pc = "responded"

\* C36: a request whose method is OPTIONS is answered 200 with the CORS
\* headers and an empty body, a request with any other method than POST is
\* answered 405 'Method not allowed', and neither issues an upstream call.
C36_PreflightAndMethodCheck ==
    (Responded /\ event.httpMethod # "POST") =>
        /\ calls = <<>>
        /\ IF event.httpMethod = "OPTIONS"
           THEN /\ response.statusCode = 200
                /\ CorsHeaders \subseteq response.headers
                /\ response.body.empty
           ELSE /\ response.statusCode = 405
                /\ response.body.error = "Method not allowed"

(***************************************************************************)
(* C37                                                                     *)
(***************************************************************************)
\* the actions each service handler has a case for
KnownActions ==
    [radarr |-> {"add_movie", "get_movies", "get_quality_profiles", "get_root_folders"},
     sonarr |-> {"add_series", "get_series", "get_quality_profiles", "get_root_folders"},
     readarr |-> {"add_book", "add_author", "lookup_book", "lookup_book_bookinfo",
                  "lookup_author_bookinfo", "lookup_author", "lookup_edition", "get_books",
                  "get_authors", "get_quality_profiles", "get_metadata_profiles",
                  "get_root_folders"},
     overseerr |-> {"request_movie", "request_series"}]

\* the body does not parse, or names no known service, or an action the
\* service does not know, or the service lacks its URL or its API key
RequestDefect ==
    \/ event.body.kind = "invalid"
    \/ /\ event.body.kind = "object"
       /\ \/ event.body.service \notin Services
          \/ event.body.action \notin KnownActions[event.body.service]
          \/ ~env[event.body.service].url
          \/ ~env[event.body.service].key

SuccessAnswer ==
    /\ response.statusCode = 200
    /\ response.body.success = "true"
    /\ response.body.hasData
    /\ response.body.error = ""

FailureAnswer ==
    /\ response.statusCode = 500
    /\ response.body.success = "false"
    /\ ~response.body.hasData
    /\ response.body.error # ""

\* C37: a POST is answered either 200 {success: true, data} or 500
\* {success: false, error}, never both and nothing else; a body that does not
\* parse, an unknown service, an unknown action and a missing URL or API key
\* give the 500 answer without any upstream call.
C37_PostAnswered ==
    (Responded /\ event.httpMethod = "POST") =>
        /\ SuccessAnswer \/ FailureAnswer
        /\ ~(SuccessAnswer /\ FailureAnswer)
        /\ SuccessAnswer <=> result.status = "success"
        /\ RequestDefect => FailureAnswer /\ calls = <<>>

\* a request to a service whose API key is not set was answered
C37_Witness ==
    /\ Responded
    /\ event.httpMethod = "POST"
    /\ event.body.kind = "object"
    /\ event.body.service = "sonarr"
    /\ event.body.action = "get_series"
    /\ env.sonarr.url
    /\ ~env.sonarr.key
    /\ FailureAnswer
    /\ calls = <<>>

\* a request that went upstream was answered 200
C37_WitnessSuccess ==
    /\ Responded
    /\ event.httpMethod = "POST"
    /\ SuccessAnswer
    /\ calls # <<>>

(***************************************************************************)
(* C38                                                                     *)
(***************************************************************************)
SonarrAddRequest ==
    /\ event.httpMethod = "POST"
    /\ event.body.kind = "object"
    /\ event.body.service = "sonarr"
    /\ event.body.action = "add_series"

StagesInOrder == <<"lookup", "add", "search">>

SeriesFieldsGiven ==
    /\ event.body.hasData
    /\ Truthy(event.body.data.id)
    /\ Truthy(event.body.data.qualityProfileId)
    /\ event.body.data.rootFolderPath # ""

\* C38: the calls of an add_series request are the lookup, then the add, then
\* the search command, each at most once.  The add follows only a lookup that
\* gave a result for a request with all required fields; the search follows
\* only an add answered 2xx and only when searchOnAdd is not false; and once
\* the search has failed the request fails, the series staying added.
C38_SonarrCallOrder ==
    SonarrAddRequest =>
        /\ Len(calls) <= 3
        /\ \A i \in 1..Len(calls) : calls[i].stage = StagesInOrder[i]
        /\ Len(calls) >= 2 => SeriesFieldsGiven /\ calls[1].outcome = "results"
        /\ Len(calls) = 3 =>
              /\ calls[2].outcome = "results"
              /\ event.body.data.searchOnAdd # "false"
              /\ media.added.present
        /\ (Len(calls) = 3 /\ calls[3].outcome = "error") =>
              /\ pc \in {"done", "responded"}
              /\ result.status = "failed"
              /\ Responded => FailureAnswer
              /\ calls[2].outcome = "results"
              /\ media.added.present

\* the series was added, the search command failed, and the answer is 500
C38_Witness ==
    /\ SonarrAddRequest
    /\ Responded
    /\ Len(calls) = 3
    /\ calls[2].outcome = "results"
    /\ calls[3].outcome = "error"
    /\ media.added.present
    /\ FailureAnswer

(***************************************************************************)
(* C39                                                                     *)
(***************************************************************************)
RadarrAddRequest ==
    /\ event.httpMethod = "POST"
    /\ event.body.kind = "object"
    /\ event.body.service = "radarr"
    /\ event.body.action = "add_movie"

MovieFieldsGiven ==
    /\ event.body.hasData
    /\ Truthy(event.body.data.id)
    /\ Truthy(event.body.data.qualityProfileId)
    /\ event.body.data.rootFolderPath # ""

\* the tmdbId of the request as a number: 603 and '603' both ask for movie 603
RequestedTmdbId ==
    LET id == event.body.data.id
    IN IF id.t = "number" THEN id
       ELSE IF id.t = "string" /\ id.s # "" /\ DigitRun(id.s) = Len(id.s)
            THEN Num(DecimalValue(id.s)) ELSE NaN

\* the add request was sent and its answer has been dealt with
AddAnswered == Len(calls) >= 2 /\ pc \in {"done", "responded"}

\* the add was answered 2xx with an array
ArrayAnswer == AddAnswered /\ media.answer.ok /\ media.answer.isArray

\* the positions of the array answer that hold the requested movie
Requested ==
    {i \in 1..Len(media.answer.items) : media.answer.items[i].foreignId = RequestedTmdbId}

\* C39: an add_movie request sends the add only with all required fields and
\* after a lookup that gave a movie.  When the add is answered 2xx with an
\* array, the request succeeds exactly when the array holds a movie with the
\* requested tmdbId, and the movie reported is the first such entry; without
\* such an entry the request fails although the add was answered 2xx.
C39_RadarrArrayAnswer ==
    RadarrAddRequest =>
        /\ Len(calls) <= 2
        /\ \A i \in 1..Len(calls) : calls[i].stage = StagesInOrder[i]
        /\ Len(calls) = 2 => MovieFieldsGiven /\ calls[1].outcome = "results"
        /\ ArrayAnswer =>
              /\ calls[2].outcome = "results"
              /\ result.status = "success" <=> Requested # {}
              /\ Requested # {} => media.added = media.answer.items[First(Requested)]
              /\ Requested = {} => result.status = "failed" /\ ~media.added.present
              /\ Responded =>
                    IF Requested # {} THEN SuccessAnswer ELSE FailureAnswer

\* the add was answered 2xx with an array of other movies, and the answer is 500
C39_Witness ==
    /\ RadarrAddRequest
    /\ Responded
    /\ ArrayAnswer
    /\ media.answer.items # <<>>
    /\ Requested = {}
    /\ FailureAnswer

\* the requested movie was found behind another one in the array
C39_WitnessFound ==
    /\ RadarrAddRequest
    /\ Responded
    /\ ArrayAnswer
    /\ Requested # {}
    /\ First(Requested) = 2
    /\ SuccessAnswer

(***************************************************************************)
(* The generic proxy variant (exports.handler of the second module): one   *)
(* request to the service named by target, answered with what the service  *)
(* answered.                                                               *)
(***************************************************************************)
\* JSON.parse(event.body) of a well-formed request to the generic proxy
ProxyBody(target, path, method, hasBody) ==
    [kind |-> "object", target |-> target, path |-> path, method |-> method,
     hasBody |-> hasBody]

OtherProxyBody(kind) ==
    [kind |-> kind, target |-> "", path |-> "", method |-> "", hasBody |-> FALSE]

\* the keys of the SERVICES object literal
ServiceMap == {"radarr", "sonarr"}

\* property names every object literal inherits from Object.prototype
InheritedKeys == {"constructor", "toString", "hasOwnProperty", "valueOf"}

ProxyInputs ==
    \* methods other than POST
    {[event |-> [httpMethod |-> m, body |-> ProxyBody("radarr", "/api/v3/movie", "", FALSE)],
      env |-> FullEnv] : m \in {"OPTIONS", "GET", "PUT"}}
    \* bodies that are not a JSON object
    \cup
    {[event |-> [httpMethod |-> "POST", body |-> OtherProxyBody(k)], env |-> FullEnv] :
        k \in {"invalid", "null"}}
    \* target, path, method, body and the settings of the services vary
    \cup
    {[event |-> [httpMethod |-> "POST", body |-> ProxyBody(t, p, m, b)],
      env |-> [FullEnv EXCEPT !.radarr = e]] :
        t \in {"", "radarr", "sonarr", "readarr", "constructor"},
        p \in {"", "/api/v3/movie", "http://example.org/x"},
        m \in {"", "GET", "POST"}, b \in BOOLEAN,
        e \in {[url |-> TRUE, key |-> TRUE], [url |-> FALSE, key |-> TRUE]}}

ProxyInit ==
    /\ \E inp \in ProxyInputs :
        /\ event = inp.event
        /\ env = inp.env
    /\ data = BaseData
    /\ upstream = BaseUpstream
    /\ book = BaseData.book
    /\ authorResults = <<>>
    /\ media = NoMedia
    /\ response = NoResponse
    /\ pc = "proxy"
    /\ Fresh

ProxyAnswer(status, success, error, hasData) ==
    [statusCode |-> status, headers |-> {},
     body |-> [empty |-> FALSE, success |-> success, error |-> error, hasData |-> hasData]]

\* if (event.httpMethod !== 'POST')
ProxyCheckMethod ==
    /\ pc = "proxy"
    /\ IF event.httpMethod # "POST"
       THEN response' = ProxyAnswer(405, "false", "Method Not Allowed", FALSE)
                /\ pc' = "responded"
       ELSE response' = response /\ pc' = "proxyParse"
    /\ UNCHANGED <<requestVars, readarrVars, media, calls, result>>

\* SERVICES[target]: own keys give the service's settings, inherited keys a
\* value of Object.prototype (truthy, without baseUrl and apiKey), any other
\* key undefined
ServiceLookup(target) ==
    IF target \in ServiceMap
    THEN [found |-> TRUE,
          baseUrl |-> IF env[target].url THEN "http://" \o target \o ".local" ELSE "",
          apiKey |-> env[target].key]
    ELSE IF target \in InheritedKeys
         THEN [found |-> TRUE, baseUrl |-> "", apiKey |-> FALSE]
         ELSE [found |-> FALSE, baseUrl |-> "", apiKey |-> FALSE]

\* !target || !SERVICES[target]
TargetInvalid(target) == target = "" \/ ~ServiceLookup(target).found

\* the path carries its own scheme and host
IsAbsolute(path) == MatchAt(path, 1, "http://") \/ MatchAt(path, 1, "https://")

\* new URL(path, baseUrl).toString(); '' when the constructor throws.  An
\* absolute path is taken as it is, a relative one needs the base
ResolveUrl(path, baseUrl) ==
    IF IsAbsolute(path) THEN path
    ELSE IF baseUrl = "" THEN ""
         ELSE baseUrl \o (IF path = "" THEN "/" ELSE path)

\* JSON.parse, the destructuring with its defaults, the target test and the
\* construction of the URL
ProxyValidate ==
    /\ pc = "proxyParse"
    /\ LET b == event.body IN
       IF b.kind = "invalid"
       THEN response' = ProxyAnswer(500, "false", "Unexpected token in JSON", FALSE)
                /\ pc' = "responded"
       ELSE IF b.kind = "null"
            THEN response' = ProxyAnswer(500, "false", "Cannot destructure property 'target'",
                                         FALSE)
                    /\ pc' = "responded"
            ELSE IF TargetInvalid(b.target)
                 THEN response' = ProxyAnswer(400, "false",
                                              "Invalid service target: " \o ServiceText(b.target)
                                                  \o ". Valid targets are: radarr, sonarr",
                                              FALSE)
                         /\ pc' = "responded"
                 ELSE IF ResolveUrl(b.path, ServiceLookup(b.target).baseUrl) = ""
                      THEN response' = ProxyAnswer(500, "false", "Invalid URL", FALSE)
                              /\ pc' = "responded"
                      ELSE response' = response /\ pc' = "proxyFetch"
    /\ UNCHANGED <<requestVars, readarrVars, media, calls, result>>

\* what the service answers: a status and a body that is empty, JSON or
\* neither; status 0 stands for a fetch that is rejected
ProxyResponses ==
    [status : {200, 204, 404, 500}, text : {"", "{\"id\":1}", "<html>"}]
        \cup {[status |-> 0, text |-> ""]}

\* response.ok
IsOk(status) == status \in 200..299

\* JSON.parse(textResponse) throws
NotJson(text) == text # "" /\ Char(text, 1) \notin {"{", "["}

\* method = 'GET' unless the request names one
MethodOf(b) == IF b.method = "" THEN "GET" ELSE b.method

\* the fetch and the answer built from what came back
ProxyFetch ==
    /\ pc = "proxyFetch"
    /\ LET b == event.body
           url == ResolveUrl(b.path, ServiceLookup(b.target).baseUrl)
       IN \E resp \in ProxyResponses :
            /\ calls' = Append(calls, Call(url, MethodOf(b), "proxy",
                                           IF resp.status = 0 THEN "rejected"
                                           ELSE ToString(resp.status) \o ":" \o resp.text))
            /\ response' =
                  IF resp.status = 0
                  THEN ProxyAnswer(500, "false", "request to " \o url \o " failed", FALSE)
                  ELSE IF NotJson(resp.text)
                       THEN ProxyAnswer(502, "false",
                                        "Invalid JSON response from " \o b.target, FALSE)
                       ELSE ProxyAnswer(resp.status,
                                        IF IsOk(resp.status) THEN "true" ELSE "false", "",
                                        resp.text # "")
    /\ pc' = "responded"
    /\ UNCHANGED <<requestVars, readarrVars, media, result>>

ProxyNext == ProxyCheckMethod \/ ProxyValidate \/ ProxyFetch

ProxySpec == ProxyInit /\ [][ProxyNext]_vars

(***************************************************************************)
(* C40                                                                     *)
(***************************************************************************)
\* the answer of the service, read from the log; none when the fetch was rejected
UpstreamAnswered == Len(calls) = 1 /\ calls[1].outcome # "rejected"

UpstreamStatus == calls[1].outcome

\* C40: the generic proxy answers 405 to a method other than POST and 400 to
\* a request whose target is missing or none of radarr and sonarr, both
\* without an upstream request; for every other request it issues exactly one
\* upstream request and answers with the upstream status and success =
\* upstream ok, or with 502 when the upstream body is not JSON.
C40_GenericProxy ==
    Responded =>
        IF event.httpMethod # "POST"
        THEN response.statusCode = 405 /\ calls = <<>>
        ELSE event.body.kind = "object" =>
                IF event.body.target \notin ServiceMap
                THEN response.statusCode = 400 /\ calls = <<>>
                ELSE /\ Len(calls) = 1
                     /\ UpstreamAnswered =>
                          \E resp \in ProxyResponses :
                              /\ UpstreamStatus = ToString(resp.status) \o ":" \o resp.text
                              /\ IF NotJson(resp.text)
                                 THEN response.statusCode = 502
                                 ELSE /\ response.statusCode = resp.status
                                      /\ response.body.success = "true" <=> IsOk(resp.status)

\* a target that is no key of the service map was sent upstream
C40_InheritedTargetSent ==
    /\ Responded
    /\ event.httpMethod = "POST"
    /\ event.body.target \notin ServiceMap
    /\ Len(calls) = 1
    /\ calls[1].api = "http://example.org/x"
    /\ response.statusCode = 200

\* a target that is no key of the service map was answered 500
C40_InheritedTargetFailed ==
    /\ Responded
    /\ event.body.kind = "object"
    /\ event.body.target \notin ServiceMap
    /\ env = FullEnv
    /\ calls = <<>>
    /\ response.statusCode = 500

====
